---- MODULE Spec2Model ----
(***************************************************************************)
(* Decoding pipeline of the RoboCup log player: the line cursor            *)
(* (DataIterator), the token-tree parser (SymbolTreeParser), the snapshot  *)
(* accumulator (PartialWorldState), the two decoders (ReplayParser,        *)
(* ULGParser) with their body loops and scheduled continuations, and the   *)
(* SimulationLog aggregate.                                                *)
(*                                                                         *)
(* Representation:                                                         *)
(*   - texts are strings; positions are 0-based as in the source;          *)
(*   - an undefined line is the empty string: the line regular expression  *)
(*     never yields an empty line and the source tests lines only for      *)
(*     truthiness, which "" and undefined share;                           *)
(*   - numbers read by parseInt are [nan, val] records; numbers read by    *)
(*     parseFloat are [nan, val] with val in thousandths;                  *)
(*   - global time and game time are whole milliseconds (the source rounds *)
(*     both to three decimals), the time step is in microseconds; the      *)
(*     log's frequency is kept as its period in microseconds               *)
(*     (frequency = 10^6 / period);                                        *)
(*   - GameState and GameScore instances carry an id: reference equality   *)
(*     in the source is equality of ids here.                              *)
(***************************************************************************)
EXTENDS Integers, Sequences, FiniteSets, TLC

\* ------------------------------------------------------------------------
\* String helpers (JavaScript String.charAt / slice / split / indexOf)
\* ------------------------------------------------------------------------

CharAt(s, i) == IF i >= 0 /\ i < Len(s) THEN SubSeq(s, i + 1, i + 1) ELSE ""

Min2(a, b) == IF a < b THEN a ELSE b

Max2(a, b) == IF a > b THEN a ELSE b

\* s.slice(a, b) for 0 <= a
Slice(s, a, b) ==
  LET lo == Min2(Max2(a, 0), Len(s))
      hi == Min2(Max2(b, 0), Len(s))
  IN IF lo >= hi THEN "" ELSE SubSeq(s, lo + 1, hi)

\* s.slice(a)
SliceFrom(s, a) == Slice(s, a, Len(s))

\* s.slice(1, -1)
SliceInner(s) == Slice(s, 1, Len(s) - 1)

RECURSIVE IndexOfFrom(_, _, _)
\* s.indexOf(c, from) for a one-character c; -1 when absent
IndexOfFrom(s, c, from) ==
  IF from >= Len(s) THEN -1
  ELSE IF CharAt(s, from) = c THEN from
  ELSE IndexOfFrom(s, c, from + 1)

RECURSIVE SplitFrom(_, _)
\* the fields of s.split(' ') from position `from` on
SplitFrom(s, from) ==
  LET k == IndexOfFrom(s, " ", from)
  IN IF k < 0 THEN << SliceFrom(s, from) >>
     ELSE << Slice(s, from, k) >> \o SplitFrom(s, k + 1)

Split(s) == SplitFrom(s, 0)

\* line[i] of a split line (0-based); "" stands for undefined
Field(f, i) == IF i >= 0 /\ i < Len(f) THEN f[i + 1] ELSE ""

\* Op of the value v: names an intermediate result (a local of the source)
Bind(v, Op(_)) == Op(v)

\* the entries of new over those of old (assignments to the keys of an object)
Merge(old, new) ==
  [k \in DOMAIN old \cup DOMAIN new |-> IF k \in DOMAIN new THEN new[k] ELSE old[k]]

\* ------------------------------------------------------------------------
\* Numbers (parseInt(s, 10), parseFloat(s))
\* ------------------------------------------------------------------------

Digits == {"0", "1", "2", "3", "4", "5", "6", "7", "8", "9"}

DigitVal(c) ==
  CASE c = "0" -> 0 [] c = "1" -> 1 [] c = "2" -> 2 [] c = "3" -> 3
    [] c = "4" -> 4 [] c = "5" -> 5 [] c = "6" -> 6 [] c = "7" -> 7
    [] c = "8" -> 8 [] c = "9" -> 9 [] OTHER -> 0

NaN == [nan |-> TRUE, val |-> 0]

Num(v) == [nan |-> FALSE, val |-> v]

RECURSIVE DigitRunEnd(_, _)
\* the position after the run of digits that starts at i
DigitRunEnd(s, i) ==
  IF CharAt(s, i) \in Digits THEN DigitRunEnd(s, i + 1) ELSE i

RECURSIVE DigitRunVal(_, _, _, _)
\* the value of the digits of s in [i, e), continuing the value acc
DigitRunVal(s, i, e, acc) ==
  IF i >= e THEN acc
  ELSE DigitRunVal(s, i + 1, e, 10 * acc + DigitVal(CharAt(s, i)))

RECURSIVE SkipSpaces(_, _)
SkipSpaces(s, i) == IF CharAt(s, i) = " " THEN SkipSpaces(s, i + 1) ELSE i

\* parseInt(s, 10): leading blanks, a sign, then digits up to the first
\* character that is no digit; NaN when there is no digit
ParseInt(s) ==
  LET Run(sign, d, e) == IF e = d THEN NaN ELSE Num(sign * DigitRunVal(s, d, e, 0))
      Digit(sign, d) == Run(sign, d, DigitRunEnd(s, d))
      Signed(b, c) == Digit(IF c = "-" THEN -1 ELSE 1, IF c \in {"-", "+"} THEN b + 1 ELSE b)
      Trimmed(b) == Signed(b, CharAt(s, b))
  IN Trimmed(SkipSpaces(s, 0))

\* the first three decimals of the digits in [i, e), as thousandths
FractionMilli(s, i, e) == DigitRunVal(Slice(s, i, e) \o "00", 0, 3, 0)

\* parseFloat(s) in thousandths: sign, digits, an optional fraction (the
\* inputs carry at most three decimals and no exponent)
ParseFloat(s) ==
  LET Fraction(sign, d, e, fe) ==
        IF e = d /\ fe <= e + 1 THEN NaN
        ELSE Num(sign * (1000 * DigitRunVal(s, d, e, 0)
                         + (IF fe > e + 1 THEN FractionMilli(s, e + 1, fe) ELSE 0)))
      Whole(sign, d, e) ==
        Fraction(sign, d, e, IF CharAt(s, e) = "." THEN DigitRunEnd(s, e + 1) ELSE e)
      Digit(sign, d) == Whole(sign, d, DigitRunEnd(s, d))
      Signed(b, c) == Digit(IF c = "-" THEN -1 ELSE 1, IF c \in {"-", "+"} THEN b + 1 ELSE b)
      Trimmed(b) == Signed(b, CharAt(s, b))
  IN Trimmed(SkipSpaces(s, 0))

\* the fields of a split line read by parseInt(.., 10) / by parseFloat
Ints(f) == [i \in DOMAIN f |-> ParseInt(f[i])]

Floats(f) == [i \in DOMAIN f |-> ParseFloat(f[i])]

\* nums[i] of such a line (0-based); NaN for a field that is not there
At(nums, i) == IF i + 1 \in DOMAIN nums THEN nums[i + 1] ELSE NaN

\* Math.round(n / d) for d > 0: halves go up
RoundDiv(n, d) == (2 * n + d) \div (2 * d)

\* a whole number as thousandths
Whole(n) == IF n.nan THEN NaN ELSE Num(1000 * n.val)

\* ------------------------------------------------------------------------
\* DataIterator (the line cursor)
\* ------------------------------------------------------------------------

IsTerminator(c) == c = "\n" \/ c = "\r"

RECURSIVE RunStart(_, _)
\* where /[^\r\n]+/g matches from position i on: the first character at or
\* after i that is no line terminator; -1 when there is none
RunStart(data, i) ==
  IF i < 0 \/ i >= Len(data) THEN -1
  ELSE IF IsTerminator(CharAt(data, i)) THEN RunStart(data, i + 1)
  ELSE i

RECURSIVE RunEnd(_, _)
\* the position after the run that starts at i (the regExp's new lastIndex)
RunEnd(data, i) ==
  IF i >= Len(data) \/ IsTerminator(CharAt(data, i)) THEN i
  ELSE RunEnd(data, i + 1)

\* new DataIterator(data, partial)
NewDataIterator(data, partial) ==
  [data |-> data, lastIndex |-> 0, line |-> "", partialData |-> partial]

\* a match that reaches the end of partial data is no complete line
ReachedPartialEnd_NoCheck(partialData, lastIndex, dataLen) == FALSE

ReachedPartialEnd(partialData, lastIndex, dataLen) ==
  partialData /\ lastIndex = dataLen

\* DataIterator.next()
DataIterator_next(it) ==
  LET s == RunStart(it.data, it.lastIndex)
      e == IF s < 0 THEN 0 ELSE RunEnd(it.data, s)
      none == s < 0 \/ ReachedPartialEnd(it.partialData, e, Len(it.data))
  IN IF none THEN [it EXCEPT !.line = ""]
     ELSE [it EXCEPT !.lastIndex = e, !.line = Slice(it.data, s, e)]

\* DataIterator.hasNext()
DataIterator_hasNext(it) ==
  LET s == RunStart(it.data, it.lastIndex)
      e == IF s < 0 THEN 0 ELSE RunEnd(it.data, s)
  IN s >= 0 /\ ~ReachedPartialEnd(it.partialData, e, Len(it.data))

\* DataIterator.update that scans a replaced buffer from its start
DataIterator_update_Rescans(it, data, partial, incremental) ==
  IF incremental
  THEN [it EXCEPT !.data = SliceFrom(it.data, it.lastIndex) \o data,
                  !.lastIndex = 0,
                  !.partialData = partial]
  ELSE [it EXCEPT !.data = data, !.lastIndex = 0, !.partialData = partial]

\* DataIterator.update that keeps the consumed lines as well
DataIterator_update_KeepsAll(it, data, partial, incremental) ==
  IF incremental
  THEN [it EXCEPT !.data = it.data \o data, !.lastIndex = 0, !.partialData = partial]
  ELSE [it EXCEPT !.data = data, !.partialData = partial]

\* DataIterator.update(data, partial, incremental): the iterator afterwards
DataIterator_update(it, data, partial, incremental) ==
  IF incremental
  THEN [it EXCEPT !.data = SliceFrom(it.data, it.lastIndex) \o data,
                  !.lastIndex = 0,
                  !.partialData = partial]
  ELSE [it EXCEPT !.data = data, !.partialData = partial]

\* an update that always reports the end of the data
DataIterator_updateResult_Always(it) == TRUE

\* the value update returns: the iterator had no current line
DataIterator_updateResult(it) == it.line = ""

\* DataIterator.dispose()
DataIterator_dispose(it) ==
  [data |-> "", lastIndex |-> 0, line |-> "", partialData |-> FALSE]

\* ------------------------------------------------------------------------
\* SymbolTreeParser
\* ------------------------------------------------------------------------

NewSymbolNode == [values |-> << >>, children |-> << >>]

\* a push of the pending token whether or not it is empty
FlushValue_Always(input, startIdx, idx, node) ==
  [node EXCEPT !.values = Append(@, Slice(input, startIdx, idx))]

\* newNode.values.push(input.slice(startIdx, idx)) when idx > startIdx
FlushValue(input, startIdx, idx, node) ==
  IF idx > startIdx
  THEN [node EXCEPT !.values = Append(@, Slice(input, startIdx, idx))]
  ELSE node

RECURSIVE SymbolTreeParser_parseNode(_, _, _, _)
\* SymbolTreeParser.parseNode: the scan at position idx with the pending
\* token starting at startIdx; ok = FALSE is the thrown 'Invalid tree
\* structure' error
SymbolTreeParser_parseNode(input, startIdx, idx, node) ==
  IF idx >= Len(input) THEN [ok |-> FALSE, pos |-> idx, node |-> node]
  ELSE
    LET c == CharAt(input, idx)
    IN IF c = "("
       THEN LET r == SymbolTreeParser_parseNode(input, idx + 1, idx + 1, NewSymbolNode)
                n == FlushValue(input, startIdx, idx, node)
            IN IF ~r.ok THEN r
               ELSE SymbolTreeParser_parseNode(input, r.pos, r.pos,
                      [n EXCEPT !.children = Append(@, r.node)])
       ELSE IF c = ")"
       THEN [ok |-> TRUE, pos |-> idx + 1, node |-> FlushValue(input, startIdx, idx, node)]
       ELSE IF c = " "
       THEN SymbolTreeParser_parseNode(input, idx + 1, idx + 1,
              FlushValue(input, startIdx, idx, node))
       ELSE SymbolTreeParser_parseNode(input, startIdx, idx + 1, node)

\* a parse that does not compare the end of the first node with the end of
\* the input
SymbolTreeParser_parse_FirstNodeOnly(input) ==
  IF CharAt(input, 0) # "(" \/ CharAt(input, Len(input) - 1) # ")"
  THEN [ok |-> FALSE, node |-> NewSymbolNode]
  ELSE LET r == SymbolTreeParser_parseNode(input, 1, 1, NewSymbolNode)
       IN IF ~r.ok
          THEN [ok |-> FALSE, node |-> NewSymbolNode]
          ELSE [ok |-> TRUE, node |-> r.node]

\* SymbolTreeParser.parse: ok = FALSE when it throws
SymbolTreeParser_parse(input) ==
  IF CharAt(input, 0) # "(" \/ CharAt(input, Len(input) - 1) # ")"
  THEN [ok |-> FALSE, node |-> NewSymbolNode]
  ELSE LET r == SymbolTreeParser_parseNode(input, 1, 1, NewSymbolNode)
       IN IF ~r.ok \/ r.pos # Len(input)
          THEN [ok |-> FALSE, node |-> NewSymbolNode]
          ELSE [ok |-> TRUE, node |-> r.node]

\* ------------------------------------------------------------------------
\* ParameterMap and the parameter defaults
\* ------------------------------------------------------------------------

\* a ParameterObject is a function from keys to values; a value is a
\* number (thousandths), a boolean or a string
NumberValue(n) == [kind |-> "number", num |-> n, flag |-> FALSE, str |-> ""]

BoolValue(b) == [kind |-> "boolean", num |-> NaN, flag |-> b, str |-> ""]

StringValue(s) == [kind |-> "string", num |-> NaN, flag |-> FALSE, str |-> s]

EmptyParams == [k \in {} |-> NumberValue(NaN)]

\* params[key] = value
PutParam(params, key, value) ==
  [k \in DOMAIN params \cup {key} |-> IF k = key THEN value ELSE params[k]]

\* ParameterMap.getNumber: NaN stands for undefined as well (the only use
\* tests the result for truthiness)
ParameterMap_getNumber(params, key) ==
  IF key \in DOMAIN params /\ params[key].kind = "number"
  THEN params[key].num
  ELSE NaN

LOG_STEP == "log_step"

SIMULATOR_STEP == "simulator_step"

PLAYER_TYPE_ID == "id"

\* SparkUtil.createDefaultEnvironmentParams: only log_step is read here
SparkUtil_createDefaultEnvironmentParams ==
  PutParam(EmptyParams, LOG_STEP, NumberValue(Num(200000)))

\* SServerUtil.createDefaultEnvironmentParams
SServerUtil_createDefaultEnvironmentParams ==
  PutParam(EmptyParams, SIMULATOR_STEP, NumberValue(Num(100000)))

\* the number of default player types (references 0 .. n-1)
SparkDefaultPlayerTypes == 5

SServerDefaultPlayerTypes == 1

\* JSON.parse of a parameter line's payload, for the payloads of the inputs:
\* "{}" and one "key":number pair; ok = FALSE is the thrown SyntaxError
JSON_parse(s) ==
  LET Pair(q, numStr, n) ==
        IF /\ Slice(s, 0, 2) = "{\"" /\ q > 2 /\ Slice(s, q + 1, q + 2) = ":"
           /\ SliceFrom(s, Len(s) - 1) = "}"
           /\ ~n.nan
           /\ DigitRunEnd(numStr, Len(numStr) - 1) = Len(numStr)
        THEN [ok |-> TRUE, obj |-> PutParam(EmptyParams, Slice(s, 2, q), NumberValue(n))]
        ELSE [ok |-> FALSE, obj |-> EmptyParams]
      Number(q, numStr) == Pair(q, numStr, ParseFloat(numStr))
      Keyed(q) == Number(q, Slice(s, q + 2, Len(s) - 1))
  IN IF s = "{}" THEN [ok |-> TRUE, obj |-> EmptyParams]
     ELSE Keyed(IndexOfFrom(s, "\"", 2))

\* ------------------------------------------------------------------------
\* GameState, GameScore, ObjectState, AgentState, WorldState
\* ------------------------------------------------------------------------

\* new GameState(time, playMode), with the identity id
GameState_TimeZero(id, time, playMode) == [id |-> id, time |-> 0, playMode |-> playMode]

GameState(id, time, playMode) == [id |-> id, time |-> time, playMode |-> playMode]

\* new GameScore(time, goalsLeft, goalsRight, ...), with the identity id
GameScore(id, time, gl, gr, psl, pml, psr, pmr) ==
  [id |-> id, time |-> time, goalsLeft |-> gl, goalsRight |-> gr,
   penaltyScoreLeft |-> psl, penaltyMissLeft |-> pml,
   penaltyScoreRight |-> psr, penaltyMissRight |-> pmr]

\* a !== b on numbers: NaN differs from everything
NumNeq(a, b) == a.nan \/ b.nan \/ a.val # b.val

\* a negation that is left out
Neg_Dropped(n) == n

\* -n
Neg(n) == IF n.nan THEN NaN ELSE Num(-n.val)

\* new ObjectState({x, y, z, qx, qy, qz, qw}), values in thousandths
ObjectState(x, y, z, qx, qy, qz, qw) == << x, y, z, qx, qy, qz, qw >>

\* new ObjectState()
DefaultObjectState ==
  ObjectState(Num(0), Num(0), Num(0), Num(0), Num(0), Num(0), Num(1000))

\* a sparse array: a function from the indices set so far
EmptyArray == [i \in {} |-> 0]

\* arr.length
ArrayLength(arr) ==
  IF DOMAIN arr = {} THEN 0
  ELSE (CHOOSE i \in DOMAIN arr : \A j \in DOMAIN arr : j <= i) + 1

\* arr[idx] = value; a NaN or negative idx sets a property that neither
\* counts for length nor is seen by map(), so it leaves the array as it is
ArraySet(arr, idx, value) ==
  IF idx.nan \/ idx.val < 0 THEN arr
  ELSE [i \in DOMAIN arr \cup {idx.val} |-> IF i = idx.val THEN value ELSE arr[i]]

\* new WorldState(...)
WorldState(time, gameTime, gameState, score, ball, left, right) ==
  [time |-> time, gameTime |-> gameTime, gameState |-> gameState,
   score |-> score, ballStateArr |-> ball,
   leftAgentStateArrs |-> left, rightAgentStateArrs |-> right]

\* ------------------------------------------------------------------------
\* AgentDescription and TeamDescription (the team colour is left out)
\* ------------------------------------------------------------------------

\* the reference that stands for an undefined player type
UndefinedType == -1

\* an indexOf that finds nothing
IndexOfType_Never(types, ref) == -1

\* playerTypes.indexOf(playerType), 0-based; -1 when absent
IndexOfType(types, ref) ==
  IF \E i \in 1..Len(types) : types[i] = ref
  THEN (CHOOSE i \in 1..Len(types) :
          types[i] = ref /\ \A j \in 1..(i - 1) : types[j] # ref) - 1
  ELSE -1

\* new AgentDescription(number, side, playerType)
AgentDescription(number, playerType) ==
  [playerNo |-> number, playerTypes |-> << playerType >>, recentTypeIdx |-> 0]

\* AgentDescription.addPlayerType: the description afterwards
AgentDescription_addPlayerType(agent, playerType) ==
  LET idx == IndexOfType(agent.playerTypes, playerType)
  IN IF idx = -1
     THEN [agent EXCEPT !.playerTypes = Append(@, playerType),
                        !.recentTypeIdx = Len(agent.playerTypes)]
     ELSE [agent EXCEPT !.recentTypeIdx = idx]

\* AgentDescription.addPlayerType: the value returned
AgentDescription_addPlayerTypeResult(agent, playerType) ==
  IndexOfType(agent.playerTypes, playerType) = -1

\* new TeamDescription(name, color, side)
TeamDescription(name) == [name |-> name, agents |-> << >>, agentsEvents |-> 0]

RECURSIVE ReplaceUnderscores(_)
\* newName.split('_').join(' ')
ReplaceUnderscores(s) ==
  IF s = "" THEN ""
  ELSE (IF CharAt(s, 0) = "_" THEN " " ELSE CharAt(s, 0))
       \o ReplaceUnderscores(SliceFrom(s, 1))

\* TeamDescription.name = newName
TeamDescription_setName(team, newName) ==
  [team EXCEPT !.name = ReplaceUnderscores(newName)]

\* the position in team.agents of the description the downward scan finds
\* for the player number; 0 when there is none
AgentPos(team, number) ==
  IF \E i \in 1..Len(team.agents) : ~NumNeq(team.agents[i].playerNo, number)
  THEN CHOOSE i \in 1..Len(team.agents) :
         /\ ~NumNeq(team.agents[i].playerNo, number)
         /\ \A j \in (i + 1)..Len(team.agents) : NumNeq(team.agents[j].playerNo, number)
  ELSE 0

\* TeamDescription.addAgent: the team afterwards
TeamDescription_addAgent(team, number, playerType) ==
  LET i == AgentPos(team, number)
  IN IF i > 0
     THEN LET a == AgentDescription_addPlayerType(team.agents[i], playerType)
              added == Len(a.playerTypes) > Len(team.agents[i].playerTypes)
          IN [team EXCEPT !.agents[i] = a,
                          !.agentsEvents = IF added THEN @ + 1 ELSE @]
     ELSE [team EXCEPT !.agents = Append(@, AgentDescription(number, playerType)),
                       !.agentsEvents = @ + 1]

\* TeamDescription.addAgent: the value returned
TeamDescription_addAgentResult(team, number, playerType) ==
  LET i == AgentPos(team, number)
  IN IF i > 0 THEN AgentDescription_addPlayerTypeResult(team.agents[i], playerType)
     ELSE TRUE

\* TeamDescription.getRecentTypeIdx
TeamDescription_getRecentTypeIdx(team, playerNo) ==
  LET i == AgentPos(team, playerNo)
  IN IF i > 0 THEN team.agents[i].recentTypeIdx ELSE 0

\* ------------------------------------------------------------------------
\* SimulationLog (Replay and SServerLog add the version)
\* ------------------------------------------------------------------------

\* the period (microseconds) of a frequency given in Hz by a header; the
\* inputs give a positive frequency, and 0 stands for the period of any other
FrequencyPeriod(hz) == IF hz.nan \/ hz.val <= 0 THEN 0 ELSE 1000000 \div hz.val

\* SimulationLog.updateFrequency: frequency = 1000 / step when step is a
\* number other than 0, so the period is the step (ms, in thousandths)
SimulationLog_updateFrequency(log) ==
  LET step == ParameterMap_getNumber(log.environmentParams,
                IF log.type = "2D" THEN SIMULATOR_STEP ELSE LOG_STEP)
  IN IF ~step.nan /\ step.val # 0 THEN [log EXCEPT !.period = step.val] ELSE log

\* the references of the n default player types
DefaultPlayerTypes(n) == [i \in 0..(n - 1) |-> i]

\* no log yet (the decoder's log field is undefined)
NoLog ==
  [exists |-> FALSE, type |-> "2D", version |-> NaN, period |-> 1000000,
   environmentParams |-> EmptyParams, playerParams |-> EmptyParams,
   playerTypes |-> EmptyArray, nextTypeRef |-> 0,
   leftTeam |-> TeamDescription("Left Team"),
   rightTeam |-> TeamDescription("Right Team"),
   states |-> << >>, startTime |-> 0, endTime |-> 0, duration |-> 0,
   gameStateList |-> << >>, gameScoreList |-> << >>, fullyLoaded |-> FALSE,
   statesChanged |-> 0, playerChanged |-> 0]

\* new Replay(ressource, type, version) / new SServerLog(ressource, version)
NewSimulationLog(type, version) ==
  LET n == IF type = "2D" THEN SServerDefaultPlayerTypes ELSE SparkDefaultPlayerTypes
  IN SimulationLog_updateFrequency(
       [NoLog EXCEPT !.exists = TRUE, !.type = type, !.version = version,
                     !.environmentParams =
                        IF type = "2D" THEN SServerUtil_createDefaultEnvironmentParams
                        ELSE SparkUtil_createDefaultEnvironmentParams,
                     !.playerTypes = DefaultPlayerTypes(n),
                     !.nextTypeRef = n])

\* log.playerTypes[idx]
PlayerTypeAt(log, idx) ==
  IF ~idx.nan /\ idx.val \in DOMAIN log.playerTypes
  THEN log.playerTypes[idx.val] ELSE UndefinedType

\* log.playerTypes[idx] = new ParameterMap(...)
SetPlayerType(log, idx) ==
  [log EXCEPT !.playerTypes = ArraySet(@, idx, log.nextTypeRef),
              !.nextTypeRef = @ + 1]

\* SimulationLog.getIndexForTime(time), time in ms: Math.floor(time *
\* frequency) held into 0 .. states.length - 1; -1 stands for the NaN a
\* frequency that is no positive number leads to
SimulationLog_getIndexForTime(log, time) ==
  IF log.period = 0 THEN -1
  ELSE LET idx == (time * 1000) \div log.period
       IN IF idx < 0 THEN 0
          ELSE IF idx >= Len(log.states) THEN Len(log.states) - 1
          ELSE idx

\* SimulationLog.onTeamsUpdated
SimulationLog_onTeamsUpdated(log) == [log EXCEPT !.playerChanged = @ + 1]

\* instances are compared by reference
SameInstance(a, b) == a.id = b.id

\* one turn of the loop of onStatesUpdated for the game states: states[i]
\* is pushed unless it is the instance pushed last
StateTimelineStep(states, i, list) ==
  IF ~SameInstance(list[Len(list)], states[i].gameState)
  THEN Append(list, states[i].gameState) ELSE list

RECURSIVE StateTimeline(_, _, _, _)
\* the loop of onStatesUpdated over states[lo .. hi] for the game states
\* (the range is halved, and the first half computed before the second is
\* entered, to keep the evaluation shallow; a timeline is never empty)
StateTimeline(states, lo, hi, list) ==
  IF lo > hi THEN list
  ELSE IF lo = hi THEN StateTimelineStep(states, lo, list)
  ELSE LET mid == (lo + hi) \div 2
           first == StateTimeline(states, lo, mid, list)
       IN IF Len(first) = 0 THEN first ELSE StateTimeline(states, mid + 1, hi, first)

\* one turn of the loop of onStatesUpdated for the scores
ScoreTimelineStep(states, i, list) ==
  IF ~SameInstance(list[Len(list)], states[i].score)
  THEN Append(list, states[i].score) ELSE list

RECURSIVE ScoreTimeline(_, _, _, _)
\* the loop of onStatesUpdated over states[lo .. hi] for the scores
ScoreTimeline(states, lo, hi, list) ==
  IF lo > hi THEN list
  ELSE IF lo = hi THEN ScoreTimelineStep(states, lo, list)
  ELSE LET mid == (lo + hi) \div 2
           first == ScoreTimeline(states, lo, mid, list)
       IN IF Len(first) = 0 THEN first ELSE ScoreTimeline(states, mid + 1, hi, first)

\* SimulationLog.onStatesUpdated
SimulationLog_onStatesUpdated(log) ==
  IF Len(log.states) > 0
  THEN [log EXCEPT
          !.startTime = log.states[1].time,
          !.endTime = log.states[Len(log.states)].time,
          !.duration = log.states[Len(log.states)].time - log.states[1].time,
          !.gameStateList = StateTimeline(log.states, 2, Len(log.states),
                                          << log.states[1].gameState >>),
          !.gameScoreList = ScoreTimeline(log.states, 2, Len(log.states),
                                          << log.states[1].score >>),
          !.statesChanged = @ + 1]
  ELSE [log EXCEPT !.statesChanged = @ + 1]

\* SimulationLog.finalize
SimulationLog_finalize(log) ==
  SimulationLog_onStatesUpdated([log EXCEPT !.fullyLoaded = TRUE])

\* ------------------------------------------------------------------------
\* PartialWorldState (the snapshot accumulator)
\* ------------------------------------------------------------------------

\* storage.partialState is undefined
NoPartialState ==
  [exists |-> FALSE, time |-> 0, timeStep |-> 0, gameTime |-> Num(0),
   gameState |-> GameState(0, 0, "unknown"),
   score |-> GameScore(0, 0, Num(0), Num(0), Num(0), Num(0), Num(0), Num(0)),
   ballState |-> DefaultObjectState,
   leftAgentStates |-> EmptyArray, rightAgentStates |-> EmptyArray,
   nextStateId |-> 1, nextScoreId |-> 1]

\* new PartialWorldState(time, timeStep, gameTime)
NewPartialWorldState(time, timeStep, gameTime) ==
  [NoPartialState EXCEPT
     !.exists = TRUE, !.time = time, !.timeStep = timeStep,
     !.gameTime = Num(gameTime),
     !.gameState = GameState(0, time, "unknown"),
     !.score = GameScore(0, time, Num(0), Num(0), Num(0), Num(0), Num(0), Num(0))]

\* PartialWorldState.setGameTime(n / d seconds-thousandths): rounded to ms
PartialWorldState_setGameTime(ps, n, d) ==
  [ps EXCEPT !.gameTime = IF n.nan THEN NaN ELSE Num(RoundDiv(n.val, d))]

\* PartialWorldState.setPlaymode
PartialWorldState_setPlaymode(ps, playMode) ==
  IF ps.gameState.playMode # playMode
  THEN [ps EXCEPT !.gameState = GameState(ps.nextStateId, ps.time, playMode),
                  !.nextStateId = @ + 1]
  ELSE ps

\* PartialWorldState.setScore
PartialWorldState_setScore(ps, gl, gr, psl, pml, psr, pmr) ==
  IF \/ NumNeq(ps.score.goalsLeft, gl)
     \/ NumNeq(ps.score.goalsRight, gr)
     \/ NumNeq(ps.score.penaltyScoreLeft, psl)
     \/ NumNeq(ps.score.penaltyMissLeft, pml)
     \/ NumNeq(ps.score.penaltyScoreRight, psr)
     \/ NumNeq(ps.score.penaltyMissRight, pmr)
  THEN [ps EXCEPT !.score = GameScore(ps.nextScoreId, ps.time, gl, gr, psl, pml, psr, pmr),
                  !.nextScoreId = @ + 1]
  ELSE ps

\* a guard that looks at the left side only
AgentsPresent_LeftOnly(ps) == ArrayLength(ps.leftAgentStates) > 0

\* the guard of appendTo: at least one agent array has an entry
AgentsPresent(ps) ==
  ArrayLength(ps.leftAgentStates) + ArrayLength(ps.rightAgentStates) > 0

\* a clock that drops the fraction of a millisecond
ProgressTime_Truncated(time, timeStep) == (time * 1000 + timeStep) \div 1000

\* Math.round((time + timeStep) * 1000) / 1000, time in ms, timeStep in us
ProgressTime(time, timeStep) == RoundDiv(time * 1000 + timeStep, 1000)

\* an appendTo that writes the new WorldState over the last one
PartialWorldState_appendTo_Overwrite(ps, states) ==
  IF AgentsPresent(ps)
  THEN [ps |-> [ps EXCEPT !.time = ProgressTime(ps.time, ps.timeStep),
                          !.leftAgentStates = EmptyArray,
                          !.rightAgentStates = EmptyArray],
        states |-> (IF Len(states) = 0 THEN << >> ELSE SubSeq(states, 1, Len(states) - 1))
                   \o << WorldState(ps.time, ps.gameTime, ps.gameState, ps.score,
                                    ps.ballState, ps.leftAgentStates, ps.rightAgentStates) >>,
        appended |-> TRUE]
  ELSE [ps |-> ps, states |-> states, appended |-> FALSE]

\* PartialWorldState.appendTo(states): the builder and the list afterwards,
\* and the value returned
PartialWorldState_appendTo(ps, states) ==
  IF AgentsPresent(ps)
  THEN [ps |-> [ps EXCEPT !.time = ProgressTime(ps.time, ps.timeStep),
                          !.leftAgentStates = EmptyArray,
                          !.rightAgentStates = EmptyArray],
        states |-> Append(states,
                     WorldState(ps.time, ps.gameTime, ps.gameState, ps.score,
                                ps.ballState, ps.leftAgentStates, ps.rightAgentStates)),
        appended |-> TRUE]
  ELSE [ps |-> ps, states |-> states, appended |-> FALSE]

\* new LogParserStorage()
NewLogParserStorage(maxStates) ==
  [exists |-> TRUE, partialState |-> NoPartialState, maxStates |-> maxStates,
   leftIndexList |-> EmptyArray, rightIndexList |-> EmptyArray]

NoStorage == [NewLogParserStorage(0) EXCEPT !.exists = FALSE]

\* ------------------------------------------------------------------------
\* AgentState as the decoders build it
\* ------------------------------------------------------------------------

HexDigits == Digits \cup {"a", "b", "c", "d", "e", "f", "A", "B", "C", "D", "E", "F"}

HexVal(c) ==
  CASE c \in {"a", "A"} -> 10 [] c \in {"b", "B"} -> 11 [] c \in {"c", "C"} -> 12
    [] c \in {"d", "D"} -> 13 [] c \in {"e", "E"} -> 14 [] c \in {"f", "F"} -> 15
    [] OTHER -> DigitVal(c)

RECURSIVE HexRunEnd(_, _)
HexRunEnd(s, i) == IF CharAt(s, i) \in HexDigits THEN HexRunEnd(s, i + 1) ELSE i

RECURSIVE HexRunVal(_, _, _, _)
HexRunVal(s, i, e, acc) ==
  IF i >= e THEN acc ELSE HexRunVal(s, i + 1, e, 16 * acc + HexVal(CharAt(s, i)))

\* parseInt(s, 16)
ParseHex(s) ==
  LET Run(sign, d, e) == IF e = d THEN NaN ELSE Num(sign * HexRunVal(s, d, e, 0))
      Digit(sign, d) == Run(sign, d, HexRunEnd(s, d))
      Prefixed(sign, d, p) == Digit(sign, IF p \in {"0x", "0X"} THEN d + 2 ELSE d)
      Unsigned(sign, d) == Prefixed(sign, d, Slice(s, d, d + 2))
      Signed(b, c) ==
        Unsigned(IF c = "-" THEN -1 ELSE 1, IF c \in {"-", "+"} THEN b + 1 ELSE b)
      Trimmed(b) == Signed(b, CharAt(s, b))
  IN Trimmed(SkipSpaces(s, 0))

\* the rotation about the vertical axis by -angle degrees, which the 2D
\* decoders turn into a quaternion (setFromAxisAngle), kept as the angle
Heading(angle) == [kind |-> "heading", angle |-> angle, q |-> << >>]

\* a quaternion given by its components (thousandths)
Quat(qx, qy, qz, qw) == [kind |-> "quat", angle |-> NaN, q |-> << qx, qy, qz, qw >>]

NoData == [k \in {} |-> NaN]

\* new AgentState({modelIdx, flags, x, y, z, q.., jointAngles, data})
AgentState(modelIdx, flags, x, y, z, rot, jointAngles, data) ==
  [modelIdx |-> modelIdx, flags |-> flags, x |-> x, y |-> y, z |-> z,
   rot |-> rot, jointAngles |-> jointAngles, data |-> data]

\* values[i] of a symbol node (0-based); "" stands for undefined
Value(node, i) == Field(node.values, i)

\* ------------------------------------------------------------------------
\* The state array of an ObjectState / AgentState, and isValid.  Here a
\* number is num * 2^exp with num in -1 .. 1, or NaN, so that numbers too
\* small for the array's 32-bit floats can be told from zero.
\* ------------------------------------------------------------------------

Double(num, exp) == [nan |-> FALSE, num |-> num, exp |-> exp]

DoubleNaN == [nan |-> TRUE, num |-> 0, exp |-> 0]

\* the exponent of the smallest positive 32-bit float, 2^-149
Float32MinExp == -149

\* what a Float32Array element holds after the number d was stored in it:
\* a magnitude of at most half the smallest positive float becomes zero
Float32Store(d) ==
  IF d.nan \/ d.num = 0 THEN d
  ELSE IF d.exp < Float32MinExp THEN Double(0, 0)
  ELSE d

\* ObjectState.encodeObjectState into a new Float32Array(7)
ObjectState_encodeObjectState(x, y, z, qx, qy, qz, qw) ==
  << Float32Store(x), Float32Store(y), Float32Store(z),
     Float32Store(qx), Float32Store(qy), Float32Store(qz), Float32Store(qw) >>

\* AgentState.encodeAgentState into a new Float32Array(7 + 3 + joints + data)
AgentState_encodeAgentState(modelIdx, flags, x, y, z, qx, qy, qz, qw, jointAngles, data) ==
  ObjectState_encodeObjectState(x, y, z, qx, qy, qz, qw)
  \o << Float32Store(modelIdx), Float32Store(flags), Double(10 + Len(jointAngles), 0) >>
  \o [i \in 1..Len(jointAngles) |-> Float32Store(jointAngles[i])]
  \o [i \in 1..Len(data) |-> Float32Store(data[i])]

\* new AgentState(params) for params that are no array: the state array
NewAgentState(params) ==
  AgentState_encodeAgentState(params.modelIdx, params.flags, params.x, params.y,
                              params.z, params.qx, params.qy, params.qz, params.qw,
                              params.jointAngles, params.data)

\* stateInfo[i] !== 0
NotZero(d) == d.nan \/ d.num # 0

\* ObjectState.isValid looking at the scalar term only
ObjectState_isValid_ScalarOnly(state) == NotZero(state[7])

\* ObjectState.isValid: some quaternion element (indices 3 .. 6) is not 0
ObjectState_isValid(state) ==
  NotZero(state[4]) \/ NotZero(state[5]) \/ NotZero(state[6]) \/ NotZero(state[7])

\* AgentState.isValid
AgentState_isValid(state) == ObjectState_isValid(state) /\ Len(state) > 9

\* ------------------------------------------------------------------------
\* ULGParser: the line decoders.  Each yields the log and the storage after
\* the line and whether the line's decoder threw.
\* ------------------------------------------------------------------------

Outcome(log, st, threw) == [log |-> log, st |-> st, threw |-> threw]

\* the value parseParameters stores for the text v
ParameterValue(v) ==
  IF v = "true" THEN BoolValue(TRUE)
  ELSE IF v = "false" THEN BoolValue(FALSE)
  ELSE IF CharAt(v, 0) = "\"" THEN StringValue(SliceInner(v))
  ELSE NumberValue(ParseFloat(v))

RECURSIVE ULGParser_parseParameters(_, _, _)
\* ULGParser.parseParameters over the children from i on
ULGParser_parseParameters(children, i, params) ==
  IF i > Len(children) THEN params
  ELSE IF Len(children[i].values) < 2
  THEN ULGParser_parseParameters(children, i + 1, params)
  ELSE ULGParser_parseParameters(children, i + 1,
         PutParam(params, children[i].values[1], ParameterValue(children[i].values[2])))

\* ULGParser.parseServerParamLine
ULGParser_parseServerParamLine(line, log, st) ==
  Bind(SymbolTreeParser_parse(line), LAMBDA r :
    IF ~r.ok THEN Outcome([log EXCEPT !.environmentParams = EmptyParams], st, TRUE)
    ELSE Bind(SimulationLog_updateFrequency(
                [log EXCEPT !.environmentParams =
                   ULGParser_parseParameters(r.node.children, 1, EmptyParams)]),
              LAMBDA log2 :
                Outcome(log2,
                        IF st.partialState.exists
                        THEN [st EXCEPT !.partialState.timeStep = log2.period] ELSE st,
                        FALSE)))

\* ULGParser.parsePlayerParamLine
ULGParser_parsePlayerParamLine(line, log, st) ==
  Bind(SymbolTreeParser_parse(line), LAMBDA r :
    IF ~r.ok THEN Outcome([log EXCEPT !.playerParams = EmptyParams], st, TRUE)
    ELSE Outcome([log EXCEPT !.playerParams =
                    ULGParser_parseParameters(r.node.children, 1, EmptyParams)],
                 st, FALSE))

\* ULGParser.parsePlayerTypeLine
ULGParser_parsePlayerTypeLine(line, log, st) ==
  Bind(SymbolTreeParser_parse(line), LAMBDA r :
    IF ~r.ok THEN Outcome(log, st, TRUE)
    ELSE Bind(ParameterMap_getNumber(
                ULGParser_parseParameters(r.node.children, 1, EmptyParams), PLAYER_TYPE_ID),
              LAMBDA typeIdx :
                IF ~typeIdx.nan /\ typeIdx.val % 1000 = 0
                THEN Outcome(SetPlayerType(log, Num(typeIdx.val \div 1000)), st, FALSE)
                ELSE Outcome(log, st, FALSE)))

\* gameTime = parseInt(v, 10) / 10, in thousandths
TenthsTime(v) == Bind(ParseInt(v), LAMBDA t : IF t.nan THEN NaN ELSE Num(t.val * 100))

\* ULGParser.parsePlaymodeLine
ULGParser_parsePlaymodeLine(line, log, st) ==
  IF ~st.partialState.exists THEN Outcome(log, st, FALSE)
  ELSE Bind(SymbolTreeParser_parse(line), LAMBDA r :
    IF ~r.ok THEN Outcome(log, st, TRUE)
    ELSE IF Len(r.node.values) <= 2 THEN Outcome(log, st, FALSE)
    ELSE Bind(PartialWorldState_appendTo(st.partialState, log.states), LAMBDA a :
           Outcome([log EXCEPT !.states = a.states],
                   [st EXCEPT !.partialState =
                      PartialWorldState_setPlaymode(
                        PartialWorldState_setGameTime(a.ps, TenthsTime(Value(r.node, 1)), 1),
                        Value(r.node, 2))],
                   FALSE)))

\* ULGParser.parseTeamLine
ULGParser_parseTeamLine(line, log, st) ==
  IF ~st.partialState.exists THEN Outcome(log, st, FALSE)
  ELSE Bind(SymbolTreeParser_parse(line), LAMBDA r :
    IF ~r.ok THEN Outcome(log, st, TRUE)
    ELSE IF Len(r.node.values) <= 5 THEN Outcome(log, st, FALSE)
    ELSE Bind(IF Len(r.node.values) > 9 THEN Ints(r.node.values)
              ELSE Ints(SubSeq(r.node.values, 1, 6)) \o << Num(0), Num(0), Num(0), Num(0) >>,
              LAMBDA v :
         Bind(PartialWorldState_appendTo(st.partialState, log.states), LAMBDA a :
           Outcome(SimulationLog_onTeamsUpdated(
                     [log EXCEPT !.leftTeam = TeamDescription_setName(@, Value(r.node, 2)),
                                 !.rightTeam = TeamDescription_setName(@, Value(r.node, 3)),
                                 !.states = a.states]),
                   [st EXCEPT !.partialState =
                      PartialWorldState_setScore(
                        PartialWorldState_setGameTime(a.ps, TenthsTime(Value(r.node, 1)), 1),
                        At(v, 4), At(v, 5), At(v, 6), At(v, 7), At(v, 8), At(v, 9))],
                   FALSE))))

\* ULGParser.parseBallState
ULGParser_parseBallState(node, ps) ==
  IF Len(node.values) < 2 THEN ps
  ELSE [ps EXCEPT !.ballState =
          ObjectState(ParseFloat(Value(node, 0)), Num(200), ParseFloat(Value(node, 1)),
                      Num(0), Num(0), Num(0), Num(1000))]

\* Agent2DData: the entries a stamina and a count sub-node set, in the
\* order of their values
StaminaData == << "STAMINA", "STAMINA_EFFORT", "STAMINA_RECOVERY", "STAMINA_CAPACITY" >>

CountData ==
  << "KICK_COUNT", "DASH_COUNT", "TURN_COUNT", "CATCH_COUNT", "MOVE_COUNT",
     "TURN_NECK_COUNT", "VIEW_COUNT", "SAY_COUNT", "TACKLE_COUNT", "POINT_TO_COUNT",
     "ATTENTION_COUNT" >>

\* the entries of names that values (a tag and the values) reaches
Reached(names, values) == {names[k] : k \in 1..Min2(Len(names), Len(values) - 1)}

\* the value that belongs to the entry nm of names
ValueFor(names, values, nm) ==
  values[1 + CHOOSE k \in 1..Len(names) : names[k] = nm]

\* the entries one sub-node of an agent node sets
ULGParser_agentEntries(values) ==
  IF Field(values, 0) = "s"
  THEN [nm \in Reached(StaminaData, values) |->
          ParseFloat(ValueFor(StaminaData, values, nm))]
  ELSE IF Field(values, 0) = "c"
  THEN [nm \in Reached(CountData, values) |->
          Whole(ParseInt(ValueFor(CountData, values, nm)))]
  ELSE IF Field(values, 0) = "f" /\ Len(values) > 2
  THEN [nm \in {"FOCUS_SIDE", "FOCUS_UNUM"} |->
          IF nm = "FOCUS_SIDE" THEN (IF values[2] = "l" THEN Num(-1000) ELSE Num(1000))
          ELSE Whole(ParseInt(values[3]))]
  ELSE NoData

RECURSIVE ULGParser_agentData(_, _, _)
\* the loop of parseAgentState over the children from i on (stamina, focus
\* and count sub-nodes)
ULGParser_agentData(children, i, data) ==
  IF i > Len(children) THEN data
  ELSE ULGParser_agentData(children, i + 1,
         Merge(data, ULGParser_agentEntries(children[i].values)))

\* ULGParser.parseAgentState: the team description and the agent array
\* afterwards
ULGParser_parseAgentState(node, log, team, teamStates) ==
  IF Len(node.values) < 7 THEN [team |-> team, states |-> teamStates]
  ELSE
    Bind(ParseInt(Value(node.children[1], 1)), LAMBDA playerNo :
    Bind(TeamDescription_addAgent(team, playerNo,
                                  PlayerTypeAt(log, ParseInt(Value(node, 0)))),
         LAMBDA team2 :
    Bind(Floats(node.values), LAMBDA v :
      [team |-> team2,
       states |-> ArraySet(teamStates, playerNo,
         AgentState(Num(TeamDescription_getRecentTypeIdx(team2, playerNo)),
                    ParseHex(Value(node, 1)),
                    At(v, 2), Num(0), At(v, 3), Heading(At(v, 6)),
                    IF Len(node.values) > 7 THEN << Neg(At(v, 7)) >> ELSE << >>,
                    ULGParser_agentData(node.children, 2, NoData)))])))

\* one turn of the loop of parseShowLine: the child node c
ULGParser_showChild(c, log, ps) ==
  IF Len(c.children) = 0 THEN [log |-> log, ps |-> ps]
  ELSE IF Value(c.children[1], 0) = "b"
  THEN [log |-> log, ps |-> ULGParser_parseBallState(c, ps)]
  ELSE IF Value(c.children[1], 0) = "l"
  THEN Bind(ULGParser_parseAgentState(c, log, log.leftTeam, ps.leftAgentStates),
            LAMBDA l : [log |-> [log EXCEPT !.leftTeam = l.team],
                        ps |-> [ps EXCEPT !.leftAgentStates = l.states]])
  ELSE IF Value(c.children[1], 0) = "r"
  THEN Bind(ULGParser_parseAgentState(c, log, log.rightTeam, ps.rightAgentStates),
            LAMBDA r : [log |-> [log EXCEPT !.rightTeam = r.team],
                        ps |-> [ps EXCEPT !.rightAgentStates = r.states]])
  ELSE [log |-> log, ps |-> ps]

RECURSIVE ULGParser_showChildren(_, _, _, _)
\* the loop of parseShowLine over the children from i on
ULGParser_showChildren(children, i, log, ps) ==
  IF i > Len(children) THEN [log |-> log, ps |-> ps]
  ELSE Bind(ULGParser_showChild(children[i], log, ps),
            LAMBDA r : ULGParser_showChildren(children, i + 1, r.log, r.ps))

\* ULGParser.parseShowLine
ULGParser_parseShowLine(line, log, st) ==
  IF ~st.partialState.exists THEN Outcome(log, st, FALSE)
  ELSE Bind(SymbolTreeParser_parse(line), LAMBDA r :
    IF ~r.ok THEN Outcome(log, st, TRUE)
    ELSE IF Len(r.node.values) <= 1 THEN Outcome(log, st, FALSE)
    ELSE Bind(PartialWorldState_appendTo(st.partialState, log.states), LAMBDA a :
         Bind(ULGParser_showChildren(r.node.children, 1,
                [log EXCEPT !.states = a.states],
                PartialWorldState_setGameTime(a.ps, TenthsTime(Value(r.node, 1)), 1)),
              LAMBDA c : Outcome(c.log, [st EXCEPT !.partialState = c.ps], FALSE))))

\* ------------------------------------------------------------------------
\* ReplayParser: the line decoders
\* ------------------------------------------------------------------------

Agent2DFlags_STAND == 1

Agent2DFlags_GOALIE == 8

\* parseEnvironmentParams
parseEnvironmentParams(dataLine, log, st) ==
  Bind(JSON_parse(SliceFrom(dataLine, 3)), LAMBDA j :
  Bind(SimulationLog_updateFrequency(
         IF j.ok THEN [log EXCEPT !.environmentParams = j.obj] ELSE log),
       LAMBDA log2 :
         Outcome(log2,
                 IF st.partialState.exists
                 THEN [st EXCEPT !.partialState.timeStep = log2.period] ELSE st,
                 FALSE)))

\* parsePlayerParams
parsePlayerParams(dataLine, log, st) ==
  Bind(JSON_parse(SliceFrom(dataLine, 3)), LAMBDA j :
    Outcome(IF j.ok THEN [log EXCEPT !.playerParams = j.obj] ELSE log, st, FALSE))

\* parsePlayerTypeParams
parsePlayerTypeParams(dataLine, log, st) ==
  Bind(IndexOfFrom(dataLine, " ", 4), LAMBDA idx :
    IF idx > 3 /\ idx < 10 /\ JSON_parse(SliceFrom(dataLine, idx + 1)).ok
    THEN Outcome(SetPlayerType(log, ParseInt(Slice(dataLine, 3, idx))), st, FALSE)
    ELSE Outcome(log, st, FALSE))

\* parseTeamLine
parseTeamLine(dataLine, log, st) ==
  Bind(Split(dataLine), LAMBDA line :
    IF Len(line) < 3 THEN Outcome(log, st, FALSE)
    ELSE Outcome(SimulationLog_onTeamsUpdated(
                   [log EXCEPT !.leftTeam = TeamDescription_setName(@, Field(line, 1)),
                               !.rightTeam = TeamDescription_setName(@, Field(line, 2))]),
                 st, FALSE))

\* a parseStateLine that sets the line's game time and play mode before it
\* commits
parseStateLine_AppliesFirst(dataLine, log, st) ==
  Bind(Split(dataLine), LAMBDA line :
    IF Len(line) < 5
    THEN [out |-> Outcome(log, st, FALSE), created |-> FALSE]
    ELSE
      Bind(PartialWorldState_appendTo(
             PartialWorldState_setPlaymode(
               PartialWorldState_setGameTime(
                 IF st.partialState.exists THEN st.partialState
                 ELSE NewPartialWorldState(0, log.period, 0),
                 ParseFloat(Field(line, 1)),
                 IF ~NumNeq(log.version, Num(0)) THEN 10 ELSE 1),
               Field(line, 2)),
             log.states),
           LAMBDA a :
        [out |-> Outcome([log EXCEPT !.states = a.states],
                         [st EXCEPT !.partialState = a.ps], FALSE),
         created |-> a.appended]))

\* parseStateLine: the outcome and the value returned (created)
parseStateLine(dataLine, log, st) ==
  Bind(Split(dataLine), LAMBDA line :
    IF Len(line) < 5
    THEN [out |-> Outcome(log, st, FALSE), created |-> FALSE]
    ELSE
      Bind(IF Len(line) > 8 THEN Ints(line)
           ELSE Ints(SubSeq(line, 1, 5)) \o << Num(0), Num(0), Num(0), Num(0) >>,
           LAMBDA v :
      Bind(IF st.partialState.exists
           THEN PartialWorldState_appendTo(st.partialState, log.states)
           ELSE [ps |-> NewPartialWorldState(0, log.period, 0),
                 states |-> log.states, appended |-> FALSE],
           LAMBDA a :
        [out |-> Outcome([log EXCEPT !.states = a.states],
                         [st EXCEPT !.partialState =
                            PartialWorldState_setScore(
                              PartialWorldState_setPlaymode(
                                PartialWorldState_setGameTime(a.ps,
                                  ParseFloat(Field(line, 1)),
                                  IF ~NumNeq(log.version, Num(0)) THEN 10 ELSE 1),
                                Field(line, 2)),
                              At(v, 3), At(v, 4), At(v, 5), At(v, 6), At(v, 7), At(v, 8))],
                         FALSE),
         created |-> a.appended])))

\* parseBallState_2D
parseBallState_2D(dataLine, ps) ==
  Bind(Split(dataLine), LAMBDA line :
    IF ~ps.exists \/ Len(line) < 3 THEN ps
    ELSE [ps EXCEPT !.ballState =
            ObjectState(ParseFloat(Field(line, 1)), Num(200), ParseFloat(Field(line, 2)),
                        Num(0), Num(0), Num(0), Num(1000))])

\* the ball of a 3D line from its numbers: x, z, -y and the quaternion
Ball3D(v) ==
  ObjectState(At(v, 1), At(v, 3), Neg(At(v, 2)), At(v, 5), At(v, 7), Neg(At(v, 6)), At(v, 4))

\* parseBallState_V0_3D: the integers are thousandths
parseBallState_V0_3D(dataLine, ps) ==
  Bind(Split(dataLine), LAMBDA line :
    IF ~ps.exists \/ Len(line) < 8 THEN ps
    ELSE [ps EXCEPT !.ballState = Ball3D(Ints(line))])

\* parseBallState_V1_3D
parseBallState_V1_3D(dataLine, ps) ==
  Bind(Split(dataLine), LAMBDA line :
    IF ~ps.exists \/ Len(line) < 8 THEN ps
    ELSE [ps EXCEPT !.ballState = Ball3D(Floats(line))])

\* a difference of angles left as it is
WrapAngle_None(a) == a

\* the difference of two angles (thousandths of a degree) wrapped once
WrapAngle(a) ==
  IF a > 180000 THEN a - 360000 ELSE IF a < -180000 THEN a + 360000 ELSE a

\* the neck angle against the body angle, negated
NeckTurn(angle, neck) ==
  IF angle.nan \/ neck.nan THEN NaN ELSE Num(-WrapAngle(neck.val - angle.val))

\* the agent array of a side written back into the builder
SetSideStates(ps, leftSide, playerNo, state) ==
  IF leftSide
  THEN [ps EXCEPT !.leftAgentStates = ArraySet(@, playerNo, state)]
  ELSE [ps EXCEPT !.rightAgentStates = ArraySet(@, playerNo, state)]

\* parseAgentState_V0_2D (joint values in degrees, before toRad)
parseAgentState_V0_2D(dataLine, log, st, leftSide) ==
  Bind(Split(dataLine), LAMBDA line :
    IF ~st.partialState.exists \/ Len(line) < 5 THEN Outcome(log, st, FALSE)
    ELSE
      Bind(Floats(line), LAMBDA v :
        Outcome(log,
                [st EXCEPT !.partialState =
                   SetSideStates(@, leftSide, ParseInt(Field(line, 1)),
                     AgentState(Num(0),
                       Num(Agent2DFlags_STAND
                           + (IF Field(line, 0) \in {"L", "R"}
                              THEN Agent2DFlags_GOALIE ELSE 0)),
                       At(v, 2), Num(0), At(v, 3), Heading(At(v, 4)),
                       IF Len(line) > 6 THEN << NeckTurn(At(v, 4), At(v, 5)) >> ELSE << >>,
                       IF Len(line) > 6
                       THEN [k \in {"STAMINA"} |-> ParseFloat(SliceFrom(Field(line, 6), 1))]
                       ELSE NoData))],
                FALSE)))

\* a registration that leaves the index lists alone
RegisterAgent_NoCache(log, st, leftSide, playerNo, typeRef) ==
  [log |-> IF leftSide
           THEN [log EXCEPT !.leftTeam =
                   TeamDescription_addAgent(log.leftTeam, playerNo, typeRef)]
           ELSE [log EXCEPT !.rightTeam =
                   TeamDescription_addAgent(log.rightTeam, playerNo, typeRef)],
   st |-> st]

\* the agent of a side registered with a player type, and the recent type
\* index cached in the side's index list
RegisterAgent(log, st, leftSide, playerNo, typeRef) ==
  Bind(TeamDescription_addAgent(
         IF leftSide THEN log.leftTeam ELSE log.rightTeam, playerNo, typeRef),
       LAMBDA team :
  Bind(TeamDescription_getRecentTypeIdx(team, playerNo), LAMBDA recent :
    [log |-> IF leftSide THEN [log EXCEPT !.leftTeam = team]
             ELSE [log EXCEPT !.rightTeam = team],
     st |-> IF leftSide
            THEN [st EXCEPT !.leftIndexList = ArraySet(@, playerNo, recent)]
            ELSE [st EXCEPT !.rightIndexList = ArraySet(@, playerNo, recent)]]))

\* indexList[playerNo], 0 when undefined
CachedTypeIdx(st, leftSide, playerNo) ==
  Bind(IF leftSide THEN st.leftIndexList ELSE st.rightIndexList, LAMBDA list :
    IF ~playerNo.nan /\ playerNo.val \in DOMAIN list THEN list[playerNo.val] ELSE 0)

\* n fields of line from the 0-based position a on, as far as there are
FieldsFrom(line, a, n) == [k \in 1..Max2(0, Min2(a + n, Len(line)) - a) |-> line[a + k]]

\* a joint list taken over in the order of the line
ShuffleJoints_InOrder(line, dataIdx, n) == FieldsFrom(line, dataIdx, 10 + 2 * n)

\* the joint shuffle of parseAgentState_V0_3D over the fields from dataIdx
\* on, with n joints per leg: old order head, l-arm, l-leg, r-arm, r-leg;
\* new order head, r-arm, l-arm, r-leg, l-leg (fields kept as written, in
\* hundredths of a degree)
ShuffleJoints(line, dataIdx, n) ==
  FieldsFrom(line, dataIdx, 2) \o FieldsFrom(line, dataIdx + 6 + n, 4)
  \o FieldsFrom(line, dataIdx + 2, 4) \o FieldsFrom(line, dataIdx + 10 + n, n)
  \o FieldsFrom(line, dataIdx + 6, n)

\* parseAgentState_V0_3D, the data starting at field d
parseAgentState_V0_3D(dataLine, log, st, leftSide) ==
  Bind(Split(dataLine), LAMBDA line :
  Bind(IF Field(line, 0) \in {"L", "R"} THEN 3 ELSE 2, LAMBDA d :
    IF ~st.partialState.exists \/ Len(line) < 9 THEN Outcome(log, st, FALSE)
    ELSE IF d = 3 /\ Len(line) < 10 THEN Outcome(log, st, FALSE)
    ELSE
      Bind(Ints(line), LAMBDA v :
      Bind(IF d = 3
           THEN RegisterAgent(log, st, leftSide, At(v, 1),
                  PlayerTypeAt(log,
                    ParseInt(SliceFrom(Field(line, 2), Len(Field(line, 2)) - 1))))
           ELSE [log |-> log, st |-> st],
           LAMBDA reg :
        Outcome(reg.log,
                [reg.st EXCEPT !.partialState =
                   SetSideStates(@, leftSide, At(v, 1),
                     AgentState(Num(CachedTypeIdx(reg.st, leftSide, At(v, 1))), Num(0),
                       At(v, d), At(v, d + 2), Neg(At(v, d + 1)),
                       Quat(At(v, d + 4), At(v, d + 6), Neg(At(v, d + 5)), At(v, d + 3)),
                       Floats(ShuffleJoints(line, d + 7,
                                IF Len(line) - (d + 7) > 22 THEN 7 ELSE 6)),
                       NoData))],
                FALSE)))))

RECURSIVE V1_children(_, _, _, _, _)
\* the loop of parseAgentState_V1 over the child nodes from i on: the
\* joint angles (degrees, negated for 2D) and the stamina
V1_children(children, i, is2D, joints, data) ==
  IF i > Len(children) THEN [joints |-> joints, data |-> data]
  ELSE IF Value(children[i], 0) = "j"
  THEN V1_children(children, i + 1, is2D,
         joints \o [k \in 1..(Len(children[i].values) - 1) |->
                      IF is2D THEN Neg(At(Floats(children[i].values), k))
                      ELSE At(Floats(children[i].values), k)],
         data)
  ELSE IF Value(children[i], 0) = "s"
  THEN V1_children(children, i + 1, is2D, joints,
         Merge(data, [k \in {"STAMINA"} |-> ParseFloat(Value(children[i], 1))]))
  ELSE V1_children(children, i + 1, is2D, joints, data)

\* parseAgentState_V1, the flags at field f
parseAgentState_V1(dataLine, log, st, leftSide) ==
  Bind(SymbolTreeParser_parse("(" \o dataLine \o ")"), LAMBDA r :
    IF ~r.ok THEN Outcome(log, st, TRUE)
    ELSE IF ~st.partialState.exists \/ Len(r.node.values) < 6 THEN Outcome(log, st, FALSE)
    ELSE
      Bind(IF Value(r.node, 0) \in {"L", "R"} THEN 3 ELSE 2, LAMBDA f :
      Bind(ParseInt(Value(r.node, 1)), LAMBDA playerNo :
      Bind(Floats(r.node.values), LAMBDA v :
      Bind(IF f = 3
           THEN RegisterAgent(log, st, leftSide, playerNo,
                              PlayerTypeAt(log, ParseInt(Value(r.node, 2))))
           ELSE [log |-> log, st |-> st],
           LAMBDA reg :
      Bind(V1_children(r.node.children, 1, log.type = "2D", << >>, NoData), LAMBDA c :
        Outcome(reg.log,
                [reg.st EXCEPT !.partialState =
                   SetSideStates(@, leftSide, playerNo,
                     AgentState(Num(CachedTypeIdx(reg.st, leftSide, playerNo)),
                       ParseHex(Value(r.node, f)),
                       At(v, f + 1),
                       IF log.type = "2D" THEN Num(0) ELSE At(v, f + 3),
                       IF log.type = "2D" THEN At(v, f + 2) ELSE Neg(At(v, f + 2)),
                       IF log.type = "2D" THEN Heading(At(v, f + 3))
                       ELSE Quat(At(v, f + 5), At(v, f + 7), Neg(At(v, f + 6)),
                                 At(v, f + 4)),
                       c.joints, c.data))],
                FALSE)))))))

\* ------------------------------------------------------------------------
\* The body loops (one pass each) and the end of a pass
\* ------------------------------------------------------------------------

\* parseBallFcn: the ball decoder parseReplayBody selects
parseBallFcn(dataLine, log, ps) ==
  IF log.type # "3D" THEN parseBallState_2D(dataLine, ps)
  ELSE IF ~NumNeq(log.version, Num(0)) THEN parseBallState_V0_3D(dataLine, ps)
  ELSE parseBallState_V1_3D(dataLine, ps)

\* parseAgentFcn: the agent decoder parseReplayBody selects
parseAgentFcn(dataLine, log, st, leftSide) ==
  IF log.type = "3D"
  THEN (IF ~NumNeq(log.version, Num(0))
        THEN parseAgentState_V0_3D(dataLine, log, st, leftSide)
        ELSE parseAgentState_V1(dataLine, log, st, leftSide))
  ELSE IF ~log.version.nan /\ log.version.val > 0
  THEN parseAgentState_V1(dataLine, log, st, leftSide)
  ELSE parseAgentState_V0_2D(dataLine, log, st, leftSide)

\* the switch of parseReplayBody on one line: the outcome and whether a
\* state line committed a snapshot
ReplayLine(dataLine, log, st) ==
  Bind(CharAt(dataLine, 0), LAMBDA c0 :
    IF c0 = "S" THEN parseStateLine(dataLine, log, st)
    ELSE
      [created |-> FALSE,
       out |->
         IF c0 = "E" /\ CharAt(dataLine, 1) = "P"
         THEN parseEnvironmentParams(dataLine, log, st)
         ELSE IF c0 = "P" /\ CharAt(dataLine, 1) = "P"
         THEN parsePlayerParams(dataLine, log, st)
         ELSE IF c0 = "P" /\ CharAt(dataLine, 1) = "T"
         THEN parsePlayerTypeParams(dataLine, log, st)
         ELSE IF c0 = "T" THEN parseTeamLine(dataLine, log, st)
         ELSE IF c0 = "b"
         THEN Outcome(log,
                      [st EXCEPT !.partialState = parseBallFcn(dataLine, log, @)], FALSE)
         ELSE IF c0 \in {"l", "L", "r", "R"}
         THEN parseAgentFcn(dataLine, log, st, c0 \in {"l", "L"})
         ELSE Outcome(log, st, FALSE)])

\* the if-chain of parseULGBody on one line: the outcome and whether the
\* line counts as a new state (a show line whose decoder did not throw)
ULGLine(line, log, st) ==
  IF Slice(line, 0, 6) = "(show "
  THEN Bind(ULGParser_parseShowLine(line, log, st),
            LAMBDA out : [out |-> out, created |-> ~out.threw])
  ELSE
    [created |-> FALSE,
     out |->
       IF Slice(line, 0, 14) = "(server_param "
       THEN ULGParser_parseServerParamLine(line, log, st)
       ELSE IF Slice(line, 0, 14) = "(player_param "
       THEN ULGParser_parsePlayerParamLine(line, log, st)
       ELSE IF Slice(line, 0, 13) = "(player_type "
       THEN ULGParser_parsePlayerTypeLine(line, log, st)
       ELSE IF Slice(line, 0, 6) = "(team "
       THEN ULGParser_parseTeamLine(line, log, st)
       ELSE IF Slice(line, 0, 10) = "(playmode "
       THEN ULGParser_parsePlaymodeLine(line, log, st)
       ELSE Outcome(log, st, FALSE)]

\* the decoder's line dispatch
DecodeLine(kind, line, log, st) ==
  IF kind = "ulg" THEN ULGLine(line, log, st) ELSE ReplayLine(line, log, st)

\* a loop guard that does not look at the count of new states
PassContinues_NoLimit(line, newStatesCnt, maxStates) == line # ""

\* the loop guard of a pass
PassContinues(line, newStatesCnt, maxStates) ==
  line # "" /\ newStatesCnt < maxStates

\* the loop's variables: the cursor, the log, the storage, the count of
\* new states and (for the record) the count of lines dispatched and the
\* count of exceptions the loop's catch clause swallowed
LoopState(it, log, st, newStatesCnt, lines, caught) ==
  [it |-> it, log |-> log, st |-> st, newStatesCnt |-> newStatesCnt, lines |-> lines,
   caught |-> caught]

\* a loop without its catch clause: a decoder's exception ends the pass
Stepped_Uncaught(c, r) ==
  IF r.out.threw
  THEN LoopState([c.it EXCEPT !.line = ""], r.out.log, r.out.st, c.newStatesCnt,
                 c.lines + 1, c.caught + 1)
  ELSE LoopState(DataIterator_next(c.it), r.out.log, r.out.st,
                 c.newStatesCnt + (IF r.created THEN 1 ELSE 0), c.lines + 1, c.caught)

\* the loop's variables after a turn whose line decoded to r
Stepped(c, r) ==
  LoopState(DataIterator_next(c.it), r.out.log, r.out.st,
            c.newStatesCnt + (IF r.created THEN 1 ELSE 0), c.lines + 1,
            c.caught + (IF r.out.threw THEN 1 ELSE 0))

\* one turn of while (!!line && newStatesCnt < storage.maxStates)
\* { ...; line = iterator.next() }; nothing once the guard fails
BodyStep(kind, c) ==
  IF PassContinues(c.it.line, c.newStatesCnt, c.st.maxStates)
  THEN Stepped(c, DecodeLine(kind, c.it.line, c.log, c.st))
  ELSE c

RECURSIVE BodyTurns(_, _, _)
\* up to n turns of the loop (the count is halved, and the first half
\* computed before the second is entered, to keep the evaluation shallow; a
\* count of lines is never negative)
BodyTurns(kind, c, n) ==
  IF n <= 1 THEN BodyStep(kind, c)
  ELSE Bind(BodyTurns(kind, c, n \div 2), LAMBDA first :
         IF first.lines < 0 THEN first ELSE BodyTurns(kind, first, n - (n \div 2)))

RECURSIVE BodyLoop(_, _, _)
RECURSIVE BodyLoopAgain(_, _, _)
\* the loop run until its guard fails, n turns at first
BodyLoop(kind, c, n) == BodyLoopAgain(kind, BodyTurns(kind, c, n), n)

\* after n turns left the loop's variables d: more turns while the guard holds
BodyLoopAgain(kind, d, n) ==
  IF PassContinues(d.it.line, d.newStatesCnt, d.st.maxStates)
  THEN BodyLoop(kind, d, 2 * n) ELSE d

\* the cursor of a pass that ran out of lines has nothing more to expect
InputExhausted_Never(it) == FALSE

InputExhausted(it) == ~it.partialData

\* what a pass leaves behind; scheduled tells whether it set the timer for
\* its continuation
Pass(it, log, st, scheduled, lines, caught, newStatesCnt) ==
  [it |-> it, log |-> log, st |-> st, scheduled |-> scheduled, lines |-> lines,
   caught |-> caught, newStatesCnt |-> newStatesCnt]

\* a pass that always fetches a line before its loop
StartLine_AlwaysNext(it) == DataIterator_next(it)

\* let line = iterator.line; if (!line) line = iterator.next()
StartLine(it) == IF it.line = "" THEN DataIterator_next(it) ELSE it

\* if (storage.partialState) storage.partialState.appendTo(log.states)
FinalPush(ps, states) ==
  IF ps.exists THEN PartialWorldState_appendTo(ps, states)
  ELSE [ps |-> ps, states |-> states, appended |-> FALSE]

\* iterator.dispose(); the final push (a); log.finalize()
FinalizePass(c, log1, a) ==
  Pass(DataIterator_dispose(c.it),
       SimulationLog_finalize([log1 EXCEPT !.states = a.states]),
       [c.st EXCEPT !.partialState = a.ps], FALSE, c.lines, c.caught,
       c.newStatesCnt)

\* the end of a pass whose loop left c and whose refresh left the log log1
EndPass(c, log1) ==
  IF c.it.line # "" THEN Pass(c.it, log1, c.st, TRUE, c.lines, c.caught, c.newStatesCnt)
  ELSE IF InputExhausted(c.it)
  THEN FinalizePass(c, log1, FinalPush(c.st.partialState, log1.states))
  ELSE Pass(c.it, log1, c.st, FALSE, c.lines, c.caught, c.newStatesCnt)

\* the part of a pass after its loop left c
AfterLoop(c) ==
  EndPass(c, IF c.newStatesCnt > 0 THEN SimulationLog_onStatesUpdated(c.log) ELSE c.log)

\* parseReplayBody / ULGParser.parseULGBody: one pass
ParseBody(kind, it0, log0, st0) ==
  AfterLoop(BodyLoop(kind, LoopState(StartLine(it0), log0, st0, 0, 0, 0), 4))

\* parseReplayBody
parseReplayBody(iterator, replay, storage) == ParseBody("replay", iterator, replay, storage)

\* ULGParser.parseULGBody
ULGParser_parseULGBody(iterator, sserverLog, storage) ==
  ParseBody("ulg", iterator, sserverLog, storage)

\* ------------------------------------------------------------------------
\* ReplayParser.parse / ULGParser.parse / dispose
\* ------------------------------------------------------------------------

ReplayMaxStates2D == 300

ReplayMaxStates3D == 50

ULGMaxStates == 100

\* the references a decoder instance holds (its iterator, log and storage
\* fields are set or undefined)
NoRefs == [iterator |-> FALSE, log |-> FALSE, storage |-> FALSE]

\* splitLine.length < n
TooFewFields_Never(splitLine, n) == FALSE

TooFewFields(splitLine, n) == Len(splitLine) < n

\* what a header check leaves behind: ok = FALSE is the thrown ParserError
Header(ok, it, log, hasLog) == [ok |-> ok, it |-> it, log |-> log, hasLog |-> hasLog]

RECURSIVE AddDefaultAgents(_, _, _)
\* for (i = 1; i < 12; i++) team.addAgent(i, playerType) from number i on
AddDefaultAgents(team, i, playerType) ==
  IF i >= 12 THEN team
  ELSE AddDefaultAgents(TeamDescription_addAgent(team, Num(i), playerType), i + 1, playerType)

\* the header of the initial 3D format: 'V ...', teams line, world line
ReplayParser_parseHeaderV(it1, splitLine) ==
  IF TooFewFields(splitLine, 4) THEN Header(FALSE, it1, NoLog, FALSE)
  ELSE
    Bind([NewSimulationLog("3D", Num(0)) EXCEPT
            !.period = FrequencyPeriod(ParseInt(Field(splitLine, 3)))],
         LAMBDA replay :
    Bind(DataIterator_next(it1), LAMBDA it2 :
    Bind(Split(it2.line), LAMBDA teams :
      IF it2.line = "" THEN Header(FALSE, it2, replay, TRUE)
      ELSE IF TooFewFields(teams, 5) \/ Field(teams, 0) # "T"
      THEN Header(FALSE, it2, replay, TRUE)
      ELSE
        Bind([replay EXCEPT
                !.leftTeam = TeamDescription_setName(@, SliceInner(Field(teams, 1))),
                !.rightTeam = TeamDescription_setName(@, SliceInner(Field(teams, 3)))],
             LAMBDA named :
        Bind(DataIterator_next(it2), LAMBDA it3 :
        Bind(Split(it3.line), LAMBDA world :
          IF it3.line = "" THEN Header(FALSE, it3, named, TRUE)
          ELSE IF TooFewFields(world, 2) \/ Field(world, 0) # "F"
          THEN Header(FALSE, it3, named, TRUE)
          ELSE Header(TRUE, DataIterator_next(it3),
                      IF ParseInt(Field(world, 1)) \in {Num(62), Num(63), Num(64), Num(66)}
                      THEN [named EXCEPT
                              !.environmentParams = SparkUtil_createDefaultEnvironmentParams]
                      ELSE named,
                      TRUE)))))))

\* the header of the initial 2D format: the teams line
ReplayParser_parseHeaderT(it1, splitLine) ==
  IF TooFewFields(splitLine, 3) THEN Header(FALSE, it1, NoLog, FALSE)
  ELSE
    Bind(NewSimulationLog("2D", Num(0)), LAMBDA replay :
      Header(TRUE, DataIterator_next(it1),
             [replay EXCEPT
                !.leftTeam = AddDefaultAgents(
                   TeamDescription_setName(@, SliceInner(Field(splitLine, 1))),
                   1, PlayerTypeAt(replay, Num(0))),
                !.rightTeam = AddDefaultAgents(
                   TeamDescription_setName(@, SliceInner(Field(splitLine, 2))),
                   1, PlayerTypeAt(replay, Num(0)))],
             TRUE))

\* the header part of ReplayParser.parse on a fresh iterator
ReplayParser_parseHeader(iterator) ==
  Bind(DataIterator_next(iterator), LAMBDA it1 :
  Bind(Split(it1.line), LAMBDA splitLine :
    IF it1.line = "" THEN Header(FALSE, it1, NoLog, FALSE)
    ELSE IF Slice(it1.line, 0, 3) = "RPL"
    THEN IF TooFewFields(splitLine, 3) THEN Header(FALSE, it1, NoLog, FALSE)
         ELSE Header(TRUE, DataIterator_next(it1),
                     NewSimulationLog(IF Field(splitLine, 1) = "2D" THEN "2D" ELSE "3D",
                                      ParseInt(Field(splitLine, 2))),
                     TRUE)
    ELSE IF CharAt(it1.line, 0) = "T" THEN ReplayParser_parseHeaderT(it1, splitLine)
    ELSE IF CharAt(it1.line, 0) = "V" THEN ReplayParser_parseHeaderV(it1, splitLine)
    ELSE Header(FALSE, it1, NoLog, FALSE)))

\* the header part of ULGParser.parse on a fresh iterator
ULGParser_parseHeader(iterator) ==
  Bind(DataIterator_next(iterator), LAMBDA it1 :
    IF it1.line = ""
       \/ (CharAt(it1.line, 0) # "U" /\ CharAt(it1.line, 1) # "L"
           /\ CharAt(it1.line, 2) # "G")
    THEN Header(FALSE, it1, NoLog, FALSE)
    ELSE Header(TRUE, DataIterator_next(it1),
                NewSimulationLog("2D", ParseInt(SliceFrom(it1.line, 3))), TRUE))

\* the storage a decoder creates after its header
NewStorage(kind, log) ==
  IF kind = "ulg"
  THEN [NewLogParserStorage(ULGMaxStates) EXCEPT
          !.partialState = NewPartialWorldState(0, 100000, 0)]
  ELSE NewLogParserStorage(IF log.type = "2D" THEN ReplayMaxStates2D ELSE ReplayMaxStates3D)

\* if (!partial && log.states.length === 0) throw new ParserError('Empty ...')
EmptyLog_AnyCall(partial, states) == Len(states) = 0

EmptyLog(partial, states) == ~partial /\ Len(states) = 0

\* what a parse call leaves behind and how it ended: result is "true" or
\* "false" (the value returned), "header-error" or "empty-error" (thrown)
Parsed(result, refs, it, log, st, scheduled, lines, caught, newStatesCnt) ==
  [result |-> result, refs |-> refs, it |-> it, log |-> log, st |-> st,
   scheduled |-> scheduled, lines |-> lines, caught |-> caught,
   newStatesCnt |-> newStatesCnt]

AllRefs == [iterator |-> TRUE, log |-> TRUE, storage |-> TRUE]

\* the end of a parse call whose pass left b: the empty-log check and the
\* value returned (log.states.length > 0, or wasEmpty && ... when progressing)
ParseEnds(partial, first, wasEmpty, refs, b) ==
  Parsed(IF EmptyLog(partial, b.log.states) THEN "empty-error"
         ELSE IF (first \/ wasEmpty) /\ Len(b.log.states) > 0 THEN "true" ELSE "false",
         refs, b.it, b.log, b.st, b.scheduled, b.lines, b.caught, b.newStatesCnt)

\* parse, first branch, after the header check left h
AfterHeader(kind, partial, h) ==
  IF ~h.ok
  THEN Parsed("header-error", [iterator |-> TRUE, log |-> h.hasLog, storage |-> FALSE],
              h.it, h.log, NoStorage, FALSE, 0, 0, 0)
  ELSE ParseEnds(partial, TRUE, TRUE, AllRefs,
                 ParseBody(kind, h.it, h.log, NewStorage(kind, h.log)))

\* parse, first branch: the decoder lacks its iterator, log or storage
ParseStart(kind, data, partial) ==
  AfterHeader(kind, partial,
              IF kind = "ulg" THEN ULGParser_parseHeader(NewDataIterator(data, partial))
              ELSE ReplayParser_parseHeader(NewDataIterator(data, partial)))

\* if (this.iterator.update(data, partial, incremental)) parse...Body(...)
\* with it1 the iterator after the update
Restart(kind, it1, log0, st0) ==
  IF DataIterator_updateResult(it1) THEN ParseBody(kind, it1, log0, st0)
  ELSE Pass(it1, log0, st0, FALSE, 0, 0, 0)

\* parse, second branch: progress parsing
ParseProgress(kind, refs, it0, log0, st0, data, partial, incremental) ==
  ParseEnds(partial, FALSE, Len(log0.states) = 0, refs,
            Restart(kind, DataIterator_update(it0, data, partial, incremental), log0, st0))

\* ReplayParser.parse / ULGParser.parse
Parse(kind, refs, it0, log0, st0, data, partial, incremental) ==
  IF ~refs.iterator \/ ~refs.log \/ ~refs.storage
  THEN ParseStart(kind, data, partial)
  ELSE ParseProgress(kind, refs, it0, log0, st0, data, partial, incremental)

\* the lines a header check consumed (1, or 3 for the initial 3D format)
HeaderLines(kind, data) ==
  IF kind = "replay" /\ CharAt(data, RunStart(data, 0)) = "V" THEN 3 ELSE 1

\* ------------------------------------------------------------------------
\* Inputs
\* ------------------------------------------------------------------------

RECURSIVE Repeat(_, _)
\* n copies of s
Repeat(s, n) ==
  IF n = 0 THEN "" ELSE IF n = 1 THEN s
  ELSE Repeat(s, n \div 2) \o Repeat(s, n - (n \div 2))

\* lines beyond a full batch in the long inputs
ExtraStates == 1

\* the distance of the chunk boundaries tried in the long inputs
LongStride == 97

\* the distance of the chunk boundaries tried in the longest input
HugeStride == 997

\* the distance of the chunk boundaries tried in the medium inputs
MediumStride == 3

ULGAgentShow == "(show 2 ((l 1) 0 0 0 0 0 0 0))\n"

ReplayAgent == "l 1 0 0 0 0\n"

ReplayState == "S 0 p 0 0\n"

Input(kind, text, stride) == [kind |-> kind, text |-> text, stride |-> stride]

Inputs ==
  << \* ULG: a short log without a final line terminator
     Input("ulg", "ULG5\n(show 1 ((l 1) 0 0 0 0 0 0 0))\r\n(show 2)", 1),
     \* ULG: first lines that are no 'ULG<version>' header, and no first line
     Input("ulg", "UXX\n" \o ULGAgentShow \o "(show 3)\n", MediumStride),
     Input("ulg", "XLX\n" \o ULGAgentShow, MediumStride),
     Input("ulg", "G\n", 1),
     Input("ulg", "XXX\n" \o ULGAgentShow, MediumStride),
     Input("ulg", "\n", 1),
     \* ULG: a header only
     Input("ulg", "ULG5\n", 1),
     \* ULG: a simulator step below half a millisecond
     Input("ulg", "ULG5\n(server_param (simulator_step 0.4))\n" \o ULGAgentShow
                  \o ULGAgentShow \o "(show 3)\n", MediumStride),
     \* ULG: a full batch of show lines without agents, then agents
     Input("ulg", "ULG5\n" \o Repeat("(show 1)\n", ULGMaxStates)
                  \o Repeat(ULGAgentShow, ExtraStates) \o "(show 3)\n", LongStride),
     \* Replay 3D version 1: the play mode changes and changes back between
     \* two snapshots
     Input("replay", "RPL 3D 1\nS 0 a 0 0\nl 1 0 0 0 0\nS 1 b 0 0\nS 2 a 0 0\nl 1 0 0 0 0\n", 1),
     \* Replay 3D version 1: a log step below half a millisecond
     Input("replay", "RPL 3D 1\nEP {\"log_step\":0.4}\nS 0 a 0 0\nl 1 0 0 0 0\nS 1 a 1 0\nl 1 0 0 0 0",
           MediumStride),
     \* Replay 3D version 1: more snapshots than one batch commits
     Input("replay", "RPL 3D 1\n" \o ReplayState
                     \o Repeat(ReplayAgent \o ReplayState, ReplayMaxStates3D + ExtraStates)
                     \o ReplayAgent, LongStride),
     \* Replay 2D version 1: more snapshots than one batch commits
     Input("replay", "RPL 2D 1\n" \o ReplayState
                     \o Repeat(ReplayAgent \o ReplayState, ReplayMaxStates2D + ExtraStates)
                     \o ReplayAgent, HugeStride),
     \* Replay: state lines but no agents
     Input("replay", "RPL 2D 1\nS 0 a 0 0\n", 1),
     \* Replay: the initial 2D and 3D formats
     Input("replay", "T 'a' 'b'\nS 0 p 0 0\nl 1 0 0 0\nS 1 p 0 0\nR 1 0 0 0 9 s1\n", MediumStride),
     Input("replay", "V 0 0 5\nT 'a' c 'b' d\nF 66\nS 0 p 0 0\nL 1 t0 0 0 0 0 0 0 0\n", MediumStride),
     \* Replay: malformed or missing headers
     Input("replay", "RPL 3D\n" \o ReplayState \o ReplayAgent, MediumStride),
     Input("replay", "T a\n", 1),
     Input("replay", "V 0 0\nT a b c d\nF 66\n", MediumStride),
     Input("replay", "V 0 0 5\nX a b c d\nF 66\n", MediumStride),
     Input("replay", "V 0 0 5\nT a b c\nF 66\n", MediumStride),
     Input("replay", "V 0 0 5\nT a b c d\nG 66\n", MediumStride),
     Input("replay", "V 0 0 5\nT a b c d\nF\n", MediumStride),
     Input("replay", "V 0 0 5\nT a b c d\n", MediumStride),
     Input("replay", "X 3D 1\n" \o ReplayState \o ReplayAgent, MediumStride),
     Input("replay", "\r\n", 1),
     \* a body line whose token tree is never closed, between good lines
     Input("ulg", "ULG5\n" \o ULGAgentShow \o "(show 2 ((l 1) 0 0\n" \o ULGAgentShow
                  \o "(show 3)\n", MediumStride),
     Input("replay", "RPL 3D 1\nS 0 a 0 0\nl 1 0 0 0 0\nS 1 a 0 0\nl 1 0 0 (j 1\n"
                     \o "l 1 0 0 0 0\nS 2 a 0 0\n", MediumStride),
     \* parameter lines, good ones and ones that fail to decode
     Input("ulg", "ULG5\n(player_param (a 1))\n(player_param (b 2)\n" \o ULGAgentShow
                  \o "(show 3)\n", MediumStride),
     Input("replay", "RPL 2D 1\nPP {\"a\":1}\nPP {\"b\":\nS 0 a 0 0\nl 1 0 0 0 0\n",
           MediumStride),
     \* a play mode and a score that change after the first snapshot and then
     \* stay
     Input("replay", "RPL 2D 1\nS 0 a 0 0\nl 1 0 0 0 0\nS 1 b 1 0\nl 1 0 0 0 0\n"
                     \o "S 2 b 1 0\nl 1 0 0 0 0\n", MediumStride),
     \* ULG: a play mode line between two snapshots
     Input("ulg", "ULG5\n" \o ULGAgentShow \o "(playmode 3 play_on)\n" \o ULGAgentShow
                  \o "(show 3)\n", MediumStride) >>

\* ------------------------------------------------------------------------
\* The state machine: one decoder instance fed one input
\* ------------------------------------------------------------------------

VARIABLES
  input,      \* the index of the input being loaded
  mode,       \* how the caller delivers it: "incremental" chunks, or the
              \* "whole" text received so far with every call
  sent,       \* the number of characters delivered so far
  calls,      \* the number of parse calls made: 0, 1 or 2 for more
  refs,       \* the decoder's iterator / log / storage fields (set or not)
  iterator,   \* the DataIterator object
  log,        \* the SimulationLog object
  storage,    \* the LogParserStorage object
  timers,     \* the scheduled continuations (setTimeout) not yet run
  lastCall,   \* how the last parse call ended
  trueCount,  \* the number of parse calls that returned true
  disposed,   \* "no", or how dispose was called: "keep" / "drop" the iterator
  decoded,    \* the number of lines handed to the header check or a decoder
  passes,     \* the number of scheduled continuations that have run
  caught,     \* the number of exceptions the body loops' catch clauses swallowed
  lastPass,   \* the last pass of a body loop: the lines it dispatched and
              \* the new states it counted
  unit        \* the operation last applied on its own: its name, its
              \* arguments and what it returned or left behind

vars == << input, mode, sent, calls, refs, iterator, log, storage, timers,
           lastCall, trueCount, disposed, decoded, passes, caught, lastPass,
           unit >>

\* no operation was applied on its own
NoUnit == [op |-> "none", args |-> << >>, result |-> << >>]

Kind == Inputs[input].kind

Text == Inputs[input].text

\* the chunk boundaries the caller may choose: the multiples of the input's
\* stride, and the end of the text
Cuts == {n \in 1..Len(Text) : n % Inputs[input].stride = 0 \/ n = Len(Text)}

Errors == {"header-error", "empty-error"}

Init ==
  /\ input \in 1..Len(Inputs)
  /\ mode \in {"incremental", "whole"}
  /\ sent = 0
  /\ calls = 0
  /\ refs = NoRefs
  /\ iterator = NewDataIterator("", FALSE)
  /\ log = NoLog
  /\ storage = NoStorage
  /\ timers = 0
  /\ lastCall = [result |-> "none", partial |-> TRUE, nonEmpty |-> FALSE]
  /\ trueCount = 0
  /\ disposed = "no"
  /\ decoded = 0
  /\ passes = 0
  /\ caught = 0
  /\ lastPass = [lines |-> 0, newStatesCnt |-> 0]
  /\ unit = NoUnit

\* the caller may call parse: it has not disposed the decoder, the last call
\* did not throw, and the final (non-partial) call has not been made
CanParse ==
  /\ disposed = "no"
  /\ lastCall.result \notin Errors
  /\ lastCall.partial

\* the state after a parse call that delivered the text up to position n
\* and ended as r; headerLines are the lines its header check consumed
CallEnds(n, partial, headerLines, r) ==
  /\ sent' = n
  /\ calls' = Min2(calls + 1, 2)
  /\ refs' = r.refs
  /\ iterator' = r.it
  /\ log' = r.log
  /\ storage' = r.st
  /\ timers' = timers + (IF r.scheduled THEN 1 ELSE 0)
  /\ lastCall' = [result |-> r.result, partial |-> partial,
                  nonEmpty |-> Len(r.log.states) > 0]
  /\ trueCount' = trueCount + (IF r.result = "true" THEN 1 ELSE 0)
  /\ decoded' = decoded + r.lines + (IF r.result # "header-error" THEN headerLines ELSE 0)
  /\ caught' = caught + r.caught
  /\ lastPass' = [lines |-> r.lines, newStatesCnt |-> r.newStatesCnt]
  /\ UNCHANGED << input, mode, disposed, passes, unit >>

\* the data of a parse call that delivers the text up to position n
Delivered(n) ==
  IF mode = "incremental" THEN Slice(Text, sent, n) ELSE Slice(Text, 0, n)

\* a parse call that delivers the text up to position n
DoParse(n, partial) ==
  CallEnds(n, partial,
           IF ~refs.iterator \/ ~refs.log \/ ~refs.storage
           THEN HeaderLines(Kind, Delivered(n)) ELSE 0,
           Parse(Kind, refs, iterator, log, storage, Delivered(n), partial,
                 mode = "incremental"))

\* parse(data, ressource, true, incremental): more data may follow
ParsePartial(n) ==
  /\ CanParse
  /\ n > sent
  /\ DoParse(n, TRUE)

\* parse(data, ressource, false, incremental): the data is complete
ParseFinal ==
  /\ CanParse
  /\ DoParse(Len(Text), FALSE)

\* the state after a scheduled pass left b
ContinuationEnds(b) ==
  /\ iterator' = b.it
  /\ log' = b.log
  /\ storage' = b.st
  /\ timers' = timers - 1 + (IF b.scheduled THEN 1 ELSE 0)
  /\ decoded' = decoded + b.lines
  /\ caught' = caught + b.caught
  /\ lastPass' = [lines |-> b.lines, newStatesCnt |-> b.newStatesCnt]
  /\ passes' = passes + 1
  /\ UNCHANGED << input, mode, sent, calls, refs, lastCall, trueCount, disposed, unit >>

\* the timer fires: the scheduled pass of parseReplayBody / parseULGBody
\* runs on the objects it was scheduled with
RunContinuation ==
  /\ timers > 0
  /\ ContinuationEnds(ParseBody(Kind, iterator, log, storage))

\* dispose(keepIteratorAlive)
Dispose(keepIteratorAlive) ==
  /\ disposed = "no"
  /\ iterator' = IF refs.iterator /\ ~keepIteratorAlive
                 THEN DataIterator_dispose(iterator) ELSE iterator
  /\ refs' = NoRefs
  /\ disposed' = IF keepIteratorAlive THEN "keep" ELSE "drop"
  /\ UNCHANGED << input, mode, sent, calls, log, storage, timers, lastCall,
                  trueCount, decoded, passes, caught, lastPass, unit >>

Next ==
  \/ \E n \in Cuts : ParsePartial(n)
  \/ ParseFinal
  \/ RunContinuation
  \/ \E keepIteratorAlive \in BOOLEAN : Dispose(keepIteratorAlive)

Spec == Init /\ [][Next]_vars

\* a timer fires: RunContinuation is enabled exactly when a timer is set, and
\* its steps are exactly the steps that count a pass
TimerFires == timers > 0 /\ passes' = passes + 1

\* the host's task queue runs every timer that is due
LiveSpec == Spec /\ WF_passes(TimerFires)

\* ------------------------------------------------------------------------
\* The operations applied on their own, on arguments drawn from small sets
\* ------------------------------------------------------------------------

\* the operation op was applied to args and gave result; no decoder runs
Applied(op, args, result) ==
  /\ unit.op = "none"
  /\ unit' = [op |-> op, args |-> args, result |-> result]
  /\ UNCHANGED << input, mode, sent, calls, refs, iterator, log, storage, timers,
                  lastCall, trueCount, disposed, decoded, passes, caught, lastPass >>

\* an agent state as a decoder stores it
SomeAgent(x) ==
  AgentState(Num(0), Num(0), Num(x), Num(0), Num(0), Heading(Num(0)), << >>, NoData)

\* the agent arrays a builder may hold: empty, or entries at some indices
AgentArrays ==
  {EmptyArray, ArraySet(EmptyArray, Num(0), SomeAgent(1000)),
   ArraySet(ArraySet(EmptyArray, Num(1), SomeAgent(1000)), Num(3), SomeAgent(2000))}

\* the builders appendTo is applied to: constructed, then given a play mode,
\* a score, and agent states
Builders ==
  {[PartialWorldState_setScore(
      PartialWorldState_setPlaymode(NewPartialWorldState(time, timeStep, 0), playMode),
      Num(goals), Num(0), Num(0), Num(0), Num(0), Num(0))
    EXCEPT !.leftAgentStates = left, !.rightAgentStates = right] :
     time \in {0, 1500}, timeStep \in {400, 100000}, playMode \in {"unknown", "PlayOn"},
     goals \in {0, 1}, left \in AgentArrays, right \in AgentArrays}

\* the WorldState lists appendTo is applied to
StateLists ==
  {<< >>,
   << WorldState(0, Num(0), GameState(0, 0, "unknown"),
                 GameScore(0, 0, Num(0), Num(0), Num(0), Num(0), Num(0), Num(0)),
                 DefaultObjectState, ArraySet(EmptyArray, Num(1), SomeAgent(0)),
                 EmptyArray) >>}

\* the time steps (in microseconds) of the builders appendTo is applied to:
\* below and above half a millisecond, and a tenth of a second
AppendTimeSteps == {400, 600, 100000}

\* the game times the builder holds before the line
PendingGameTimes == {0, 7000}

\* the ball states the builder holds
PendingBalls ==
  {DefaultObjectState,
   ObjectState(Num(1500), Num(200), Num(-2000), Num(0), Num(0), Num(0), Num(1000))}

\* partialState.appendTo(states)
ApplyAppendTo(ps, states) ==
  Applied("appendTo", [ps |-> ps, states |-> states],
          PartialWorldState_appendTo(ps, states))

\* the tokens of the team lines tried
TeamLineTimes == {"100", "37", "0"}

TeamLineNames == {"TeamA", "TeamB", "\"TeamA\"", "\"TeamB\"", "a_b"}

TeamLineGoals == {"0", "1", "12"}

\* a ULG log and its storage right after the header
FreshULGLog == NewSimulationLog("2D", Num(5))

FreshULGStorage == NewStorage("ulg", FreshULGLog)

\* the body loop's dispatch of the line (team T L R gl gr) on a fresh ULG log
ApplyTeamLine(T, L, R, gl, gr) ==
  Applied("teamLine", [T |-> T, L |-> L, R |-> R, gl |-> gl, gr |-> gr],
          DecodeLine("ulg", "(team " \o T \o " " \o L \o " " \o R \o " " \o gl
                            \o " " \o gr \o ")",
                     FreshULGLog, FreshULGStorage).out)

\* a 3D replay of the initial format and its storage after a state line
FreshReplayLog3D == NewSimulationLog("3D", Num(0))

FreshReplayStorage3D ==
  [NewStorage("replay", FreshReplayLog3D) EXCEPT
     !.partialState = NewPartialWorldState(0, FreshReplayLog3D.period, 0)]

\* the pose fields of the agent lines tried: (sx, sy, sz, q0, q1, q2, q3)
PoseFields ==
  {<< sx, sy, sz, q0, q1, q2, q3 >> :
     sx \in {"1000", "-3"}, sy \in {"2000", "0"}, sz \in {"500", "7"},
     q0 \in {"1000", "0"}, q1 \in {"0", "707"}, q2 \in {"0", "-707"}, q3 \in {"0", "1"}}

RECURSIVE Joined(_)
\* the fields joined by single spaces, each with a space before it
Joined(fields) ==
  IF fields = << >> THEN "" ELSE " " \o Head(fields) \o Joined(Tail(fields))

\* the body loop's dispatch of a 3D agent line of the initial format for
\* player number 1, with the model token for 'L' and 'R'
ApplyAgentLine3D(tag, pose) ==
  Applied("agentLine3D", [tag |-> tag, pose |-> pose],
          DecodeLine("replay",
                     tag \o " 1" \o (IF tag \in {"L", "R"} THEN " t0" ELSE "")
                         \o Joined(pose),
                     FreshReplayLog3D, FreshReplayStorage3D).out)

\* the length of the longest text handed to the token tree parser
MaxTreeLen == 5

RECURSIVE TreeTexts(_)
\* the texts of at most n characters over parentheses, a letter and a space
TreeTexts(n) ==
  IF n = 0 THEN {""}
  ELSE LET shorter == TreeTexts(n - 1)
       IN shorter \cup {t \o c : t \in shorter, c \in {"(", ")", "a", " "}}

\* well-formed texts with values before, between and after nested nodes
NestedTexts ==
  {"(ab (c d)e( f)  g)", "((a b)(c))", "(a(b(c d) e)f)", "(  (()) x(y)z )",
   "(j 1 -2.5 (s 40))"}

\* SymbolTreeParser.parse(text)
ApplyTreeParse(text) == Applied("treeParse", text, SymbolTreeParser_parse(text))

\* the quaternion components tried: zero, one, minus one, the smallest
\* positive 32-bit float, a smaller positive number, and NaN
QuaternionComponents ==
  {Double(0, 0), Double(1, 0), Double(-1, 0), Double(1, Float32MinExp),
   Double(1, Float32MinExp - 1), DoubleNaN}

\* new AgentState({... qx, qy, qz, qw ...}).isValid(), at the origin and
\* with n joint angles
ApplyIsValid(q, n) ==
  Applied("isValid", [q |-> q, joints |-> n],
          AgentState_isValid(
            NewAgentState([modelIdx |-> Double(0, 0), flags |-> Double(0, 0),
                           x |-> Double(0, 0), y |-> Double(0, 0), z |-> Double(0, 0),
                           qx |-> q[1], qy |-> q[2], qz |-> q[3], qw |-> q[4],
                           jointAngles |-> [i \in 1..n |-> Double(1, 0)],
                           data |-> << >>])))

\* the most next() calls made on an iterator before its update
MaxNexts == 3

RECURSIVE Advanced(_, _)
\* the iterator after k calls of next()
Advanced(it, k) == IF k = 0 THEN it ELSE Advanced(DataIterator_next(it), k - 1)

\* the buffers an iterator is created on, and the data of an update
OldBuffers == {"", "ab\ncd\n", "ab\r\nc", "\nab\n\ncd"}

NewBuffers == {"", "d\nef\n", "ab\ncd\nef", "x"}

\* new DataIterator(old, p), k calls of next(), then update(data, partial,
\* incremental)
ApplyUpdate(old, p, k, data, partial, incremental) ==
  LET it == Advanced(NewDataIterator(old, p), k)
  IN Applied("update",
             [it |-> it, data |-> data, partial |-> partial, incremental |-> incremental],
             DataIterator_update(it, data, partial, incremental))

\* the committing lines tried, each with the game time (in thousandths of a
\* second), the play mode ("" for none) and the left goals (-1 for none) it
\* sets; the replay is of the initial format, whose times are tenths
CommitLines ==
  {[kind |-> "replay", text |-> "S 120 PlayOn 1 0", gameTime |-> 12000,
    playMode |-> "PlayOn", goalsLeft |-> 1],
   [kind |-> "replay", text |-> "S 5 unknown 0 0 0 0 0 0", gameTime |-> 500,
    playMode |-> "unknown", goalsLeft |-> 0],
   [kind |-> "replay", text |-> "S 71 KickOff 2 3 1 0 0 1", gameTime |-> 7100,
    playMode |-> "KickOff", goalsLeft |-> 2],
   [kind |-> "ulg", text |-> "(playmode 30 PlayOn)", gameTime |-> 3000,
    playMode |-> "PlayOn", goalsLeft |-> -1],
   [kind |-> "ulg", text |-> "(playmode 45 kick_off_l)", gameTime |-> 4500,
    playMode |-> "kick_off_l", goalsLeft |-> -1],
   [kind |-> "ulg", text |-> "(team 50 A B 1 0)", gameTime |-> 5000,
    playMode |-> "", goalsLeft |-> 1],
   [kind |-> "ulg", text |-> "(team 62 A B 0 4 1 0 0 1)", gameTime |-> 6200,
    playMode |-> "", goalsLeft |-> 0]}

\* the body loop's dispatch of a committing line on a log without states
\* whose storage holds the builder ps
ApplyCommitLine(l, ps) ==
  Applied("commitLine", [line |-> l, ps |-> ps],
          IF l.kind = "ulg"
          THEN DecodeLine("ulg", l.text, FreshULGLog,
                          [FreshULGStorage EXCEPT !.partialState = ps]).out
          ELSE DecodeLine("replay", l.text, FreshReplayLog3D,
                          [FreshReplayStorage3D EXCEPT !.partialState = ps]).out)

\* the goal counts handed to setScore: numbers, and what parseInt makes of a
\* token that is no number
ScoreGoals == {Num(0), Num(1), NaN}

\* the penalty scores handed to setScore
ScorePenalties == {Num(0), Num(2)}

\* ps.setScore(gl, gr, pen, 0, 0, 0)
ApplySetScore(ps, gl, gr, pen) ==
  Applied("setScore", [ps |-> ps, score |-> << gl, gr, pen, Num(0), Num(0), Num(0) >>],
          PartialWorldState_setScore(ps, gl, gr, pen, Num(0), Num(0), Num(0)))

\* the play modes handed to setPlaymode
PlayModeNames == {"unknown", "PlayOn", "KickOff"}

\* ps.setPlaymode(playMode)
ApplySetPlaymode(ps, playMode) ==
  Applied("setPlaymode", [ps |-> ps, playMode |-> playMode],
          PartialWorldState_setPlaymode(ps, playMode))

RECURSIVE Continuations(_, _)
\* the scheduled passes that follow a pass which left b, run until none is
\* scheduled
Continuations(kind, b) ==
  IF b.scheduled THEN Continuations(kind, ParseBody(kind, b.it, b.log, b.st)) ELSE b

\* the inputs loaded before parse is called once more, and what that call
\* delivers: the same text again, or one more snapshot
LoadedInputs == {1, 10}

LaterData(i) ==
  {Inputs[i].text,
   IF Inputs[i].kind = "ulg" THEN ULGAgentShow ELSE "S 3 a 0 0\n" \o ReplayAgent}

\* input i is loaded by one non-partial parse call whose scheduled passes
\* have all run; the decoder is not disposed and parse(data, ressource,
\* partial, incremental) is called on it once more
ApplyParseAgain(i, data, partial, incremental) ==
  \E loaded \in {Continuations(Inputs[i].kind,
                               ParseStart(Inputs[i].kind, Inputs[i].text, FALSE))} :
    \E again \in {Parse(Inputs[i].kind, AllRefs, loaded.it, loaded.log, loaded.st, data,
                        partial, incremental)} :
      Applied("parseAgain",
              [input |-> i, data |-> data, partial |-> partial, incremental |-> incremental,
               states |-> loaded.log.states, fullyLoaded |-> loaded.log.fullyLoaded],
              [result |-> again.result, states |-> again.log.states,
               fullyLoaded |-> again.log.fullyLoaded])

\* the most addPlayerType calls made on one agent description
MaxAdds == 3

\* the player types handed over: three parameter maps and undefined
TypeRefs == {UndefinedType, 0, 1, 2}

RECURSIVE AfterAdds(_, _)
\* the description after addPlayerType was called with each type of types
AfterAdds(agent, types) ==
  IF types = << >> THEN agent
  ELSE AfterAdds(AgentDescription_addPlayerType(agent, Head(types)), Tail(types))

\* new AgentDescription(1, side, first), then addPlayerType with each type
\* of types; the description in the end and what the last call returned
ApplyAddPlayerTypes(first, types) ==
  LET before == AfterAdds(AgentDescription(Num(1), first),
                          SubSeq(types, 1, Len(types) - 1))
  IN Applied("addPlayerType", [first |-> first, types |-> types],
             [agent |-> AgentDescription_addPlayerType(before, types[Len(types)]),
              returned |-> AgentDescription_addPlayerTypeResult(before, types[Len(types)])])

\* the longest run of agent lines decoded into one partial state
MaxAgentLines == 3

\* the agent lines tried: the tag, the player number and, on the tagged
\* lines 'L' and 'R', the index of the player type
AgentLineChoices ==
  {[tag |-> "L", no |-> "1", type |-> "0"], [tag |-> "L", no |-> "1", type |-> "1"],
   [tag |-> "l", no |-> "1", type |-> ""], [tag |-> "l", no |-> "2", type |-> ""],
   [tag |-> "R", no |-> "1", type |-> "1"], [tag |-> "r", no |-> "1", type |-> ""]}

\* the logs whose agent lines carry the type index on 'L' and 'R' only
AgentLineLogs ==
  [k \in {"3D0", "3D1", "2D1"} |->
     IF k = "3D0" THEN FreshReplayLog3D
     ELSE IF k = "3D1" THEN NewSimulationLog("3D", Num(1))
     ELSE NewSimulationLog("2D", Num(1))]

\* the text of an agent line: the model token of the initial 3D format
\* ends in the type index, the later formats give the index alone
AgentLineText(k, l) ==
  l.tag \o " " \o l.no
    \o (IF l.type = "" THEN "" ELSE IF k = "3D0" THEN " t" \o l.type ELSE " " \o l.type)
    \o (IF k = "3D0" THEN " 0 0 0 0 0 0 0" ELSE " 0x1 0 0 0 0 0 0 0")

RECURSIVE AfterAgentLines(_, _, _, _)
\* the log and the storage after the body loop dispatched the lines
AfterAgentLines(k, lines, simLog, st) ==
  IF lines = << >> THEN [log |-> simLog, st |-> st]
  ELSE Bind(DecodeLine("replay", AgentLineText(k, Head(lines)), simLog, st).out,
            LAMBDA res : AfterAgentLines(k, Tail(lines), res.log, res.st))

\* the body loop's dispatch of a run of agent lines, all of one state
\* block of a fresh log; the log and storage before and after the last
ApplyAgentLines(k, lines) ==
  \E before \in {AfterAgentLines(k, SubSeq(lines, 1, Len(lines) - 1), AgentLineLogs[k],
                    [NewStorage("replay", AgentLineLogs[k]) EXCEPT
                       !.partialState =
                          NewPartialWorldState(0, AgentLineLogs[k].period, 0)])} :
    Applied("agentLines", [kind |-> k, lines |-> lines, before |-> before],
            AfterAgentLines(k, << lines[Len(lines)] >>, before.log, before.st))

\* the most addAgent calls made on one team
MaxAgentCalls == 3

\* the player numbers handed over: two numbers, and what parseInt makes of
\* a token that is no number
AgentNumbers == {Num(1), Num(2), NaN}

\* the addAgent calls tried: a player number and a player type
AgentCalls == [number : AgentNumbers, playerType : {0, 1}]

RECURSIVE AfterAgentCalls(_, _)
\* the team after addAgent was called with each call of cs
AfterAgentCalls(team, cs) ==
  IF cs = << >> THEN team
  ELSE AfterAgentCalls(
         TeamDescription_addAgent(team, Head(cs).number, Head(cs).playerType),
         Tail(cs))

\* new TeamDescription, then the addAgent calls; the team before the last
\* call, the team in the end and what the last call returned
ApplyAddAgents(cs) ==
  \E before \in {AfterAgentCalls(TeamDescription("Left Team"),
                                  SubSeq(cs, 1, Len(cs) - 1))} :
    Applied("addAgent", [calls |-> cs, before |-> before],
            [team |-> TeamDescription_addAgent(before, cs[Len(cs)].number,
                                               cs[Len(cs)].playerType),
             returned |-> TeamDescription_addAgentResult(before, cs[Len(cs)].number,
                                                         cs[Len(cs)].playerType)])

\* the most joint values written on one agent line
MaxJoints == 25

RECURSIVE Decimal(_)
\* a natural number as its decimal digits
Decimal(n) ==
  (IF n >= 10 THEN Decimal(n \div 10) ELSE "")
    \o (CHOOSE c \in Digits : DigitVal(c) = n % 10)

\* the joint values of a line: the count-th multiples of step, in
\* hundredths of a degree
JointFields(count, step) == [i \in 1..count |-> Decimal(i * step)]

\* the body loop's dispatch of a 3D agent line of the initial format for
\* player number 1 with count joint values after the pose
ApplyJointLine(tag, count, step) ==
  Applied("jointLine", [tag |-> tag, count |-> count, step |-> step],
          DecodeLine("replay",
                     tag \o " 1" \o (IF tag \in {"L", "R"} THEN " t0" ELSE "")
                         \o " 0 0 0 1000 0 0 0" \o Joined(JointFields(count, step)),
                     FreshReplayLog3D, FreshReplayStorage3D).out)

\* the heading tokens and the tokens that may follow the heading of a 2D
\* agent line of the initial format (degrees; "" for a token left out)
HeadingTokens == {"-180", "-90", "0", "90.5", "180", "400"}

NeckTokens == {"", "-180", "0", "45", "180", "-400", "x"}

StaminaTokens == {"", "s4000"}

\* a 2D log of the initial format with a partial state
FreshReplayLog2D == NewSimulationLog("2D", Num(0))

\* the body loop's dispatch of a 2D agent line of the initial format for
\* player number 1 at the origin
ApplyAgentLine2D(tag, heading, neck, stamina) ==
  Applied("agentLine2D",
          [tag |-> tag, heading |-> heading, neck |-> neck, stamina |-> stamina],
          DecodeLine("replay",
                     tag \o " 1 0 0 " \o heading
                         \o (IF neck = "" THEN "" ELSE " " \o neck)
                         \o (IF stamina = "" THEN "" ELSE " " \o stamina),
                     FreshReplayLog2D,
                     [NewStorage("replay", FreshReplayLog2D) EXCEPT
                        !.partialState =
                           NewPartialWorldState(0, FreshReplayLog2D.period, 0)]).out)

\* ---- EventDispatcher (event observers of the logs and descriptions) ----

\* the event types, the callbacks and the listener contexts of the checks;
\* "this" is the dispatcher itself, "" an omitted (undefined) context
EventTypes == {"states-changed", "teams-changed"}

Callbacks == {"f", "g"}

ListenerContexts == {"this", "a", "b"}

\* new EventDispatcher(): an empty map from event type to listener entries
NewEventDispatcher == [known |-> {}, lists |-> [t \in EventTypes |-> << >>]]

\* the index of the first entry with this callback and context, -1 if none
FindListener(entries, callback, context) ==
  LET hits == {i \in 1..Len(entries) :
                 entries[i].fn = callback /\ entries[i].context = context}
  IN  IF hits = {} THEN -1 ELSE (CHOOSE i \in hits : \A j \in hits : i <= j) - 1

\* EventDispatcher.addEventListener: a falsy context becomes the dispatcher,
\* the list of the type is created lazily, the pair is added once
EventDispatcher_addEventListener(d, type, callback, context) ==
  LET ctx == IF context = "" THEN "this" ELSE context
      entries == IF type \in d.known THEN d.lists[type] ELSE << >>
  IN  [known |-> d.known \cup {type},
       lists |-> [d.lists EXCEPT ![type] =
                    IF FindListener(entries, callback, ctx) < 0
                    THEN Append(entries, [fn |-> callback, context |-> ctx])
                    ELSE entries]]

\* the entries that are not of the context, in their order
EntriesNotOf(entries, context) ==
  SelectSeq(entries, LAMBDA entry : entry.context # context)

\* what "for (let key in ...keys())" visits: the enumerable string keyed
\* properties of the iterator object that Map.keys() returns, and a map
\* iterator has none, whatever the keys of the map are
ForInKeys(keys) == {}

\* EventDispatcher.removeEventListenersFor: the list of each visited key with
\* the entries of the context filtered out
EventDispatcher_removeEventListenersFor(d, context) ==
  LET ctx == IF context = "" THEN "this" ELSE context
  IN  [d EXCEPT !.lists = [t \in EventTypes |->
                             IF t \in ForInKeys(d.known)
                             THEN EntriesNotOf(d.lists[t], ctx)
                             ELSE d.lists[t]]]

\* EventDispatcher.dispatchEvent: the entries whose callback is called, in
\* the order of the calls
EventDispatcher_dispatchEvent(d, type) ==
  IF type \in d.known THEN d.lists[type] ELSE << >>

\* the most listeners added to one dispatcher
MaxListeners == 2

\* the addEventListener calls of the checks
ListenerCalls == [type : EventTypes, fn : Callbacks, context : ListenerContexts \cup {""}]

RECURSIVE AfterListenerCalls(_, _)
\* the dispatcher after addEventListener was called with each call of cs
AfterListenerCalls(d, cs) ==
  IF cs = << >> THEN d
  ELSE AfterListenerCalls(
         EventDispatcher_addEventListener(d, Head(cs).type, Head(cs).fn, Head(cs).context),
         Tail(cs))

\* new EventDispatcher, the addEventListener calls, removeEventListenersFor
\* of a context and then a dispatchEvent of a type: the dispatcher before and
\* after the removal and the entries the dispatch called
ApplyRemoveListeners(cs, context, type) ==
  \E before \in {AfterListenerCalls(NewEventDispatcher, cs)} :
    \E after \in {EventDispatcher_removeEventListenersFor(before, context)} :
      Applied("removeListeners",
              [calls |-> cs, context |-> context, type |-> type, before |-> before],
              [after |-> after, invoked |-> EventDispatcher_dispatchEvent(after, type)])

UnitInit == Init /\ input = 1 /\ mode = "whole"

UnitNext ==
  \/ /\ unit.op = "none"
     /\ \E ps \in Builders, states \in StateLists, timeStep \in AppendTimeSteps,
           gameTime \in PendingGameTimes, ball \in PendingBalls :
           ApplyAppendTo([ps EXCEPT !.timeStep = timeStep, !.gameTime = Num(gameTime),
                                    !.ballState = ball],
                         states)
  \/ /\ unit.op = "none"
     /\ \E T \in TeamLineTimes, L \in TeamLineNames, R \in TeamLineNames,
           gl \in TeamLineGoals, gr \in TeamLineGoals : ApplyTeamLine(T, L, R, gl, gr)
  \/ /\ unit.op = "none"
     /\ \E tag \in {"l", "L", "r", "R"}, pose \in PoseFields : ApplyAgentLine3D(tag, pose)
  \/ /\ unit.op = "none"
     /\ \E text \in TreeTexts(MaxTreeLen) \cup NestedTexts : ApplyTreeParse(text)
  \/ /\ unit.op = "none"
     /\ \E q \in [1..4 -> QuaternionComponents], n \in {0, 2} : ApplyIsValid(q, n)
  \/ /\ unit.op = "none"
     /\ \E l \in CommitLines, ps \in Builders, gameTime \in PendingGameTimes :
           ApplyCommitLine(l, [ps EXCEPT !.gameTime = Num(gameTime)])
  \/ /\ unit.op = "none"
     /\ \E ps \in Builders, gl0 \in ScoreGoals, gl \in ScoreGoals, gr \in ScoreGoals,
           pen \in ScorePenalties :
           ApplySetScore(PartialWorldState_setScore(ps, gl0, Num(0), Num(0), Num(0), Num(0),
                                                    Num(0)),
                         gl, gr, pen)
  \/ /\ unit.op = "none"
     /\ \E ps \in Builders, playMode \in PlayModeNames : ApplySetPlaymode(ps, playMode)
  \/ /\ unit.op = "none"
     /\ \E i \in LoadedInputs, partial \in BOOLEAN, incremental \in BOOLEAN :
           \E data \in LaterData(i) : ApplyParseAgain(i, data, partial, incremental)
  \/ /\ unit.op = "none"
     /\ \E first \in TypeRefs, n \in 1..MaxAdds :
           \E types \in [1..n -> TypeRefs] : ApplyAddPlayerTypes(first, types)
  \/ /\ unit.op = "none"
     /\ \E n \in 1..MaxAgentCalls : \E cs \in [1..n -> AgentCalls] : ApplyAddAgents(cs)
  \/ /\ unit.op = "none"
     /\ \E tag \in {"l", "L", "r", "R"}, count \in 0..MaxJoints, step \in {1, 7} :
           ApplyJointLine(tag, count, step)
  \/ /\ unit.op = "none"
     /\ \E n \in 1..MaxListeners, context \in ListenerContexts, type \in EventTypes :
           \E cs \in [1..n -> ListenerCalls] : ApplyRemoveListeners(cs, context, type)
  \/ /\ unit.op = "none"
     /\ \E tag \in {"l", "L", "r", "R"}, heading \in HeadingTokens, neck \in NeckTokens,
           stamina \in StaminaTokens : ApplyAgentLine2D(tag, heading, neck, stamina)
  \/ /\ unit.op = "none"
     /\ \E k \in DOMAIN AgentLineLogs, n \in 1..MaxAgentLines :
           \E lines \in [1..n -> AgentLineChoices] : ApplyAgentLines(k, lines)
  \/ /\ unit.op = "none"
     /\ \E old \in OldBuffers, p \in BOOLEAN, k \in 0..MaxNexts, data \in NewBuffers,
           partial \in BOOLEAN, incremental \in BOOLEAN :
           ApplyUpdate(old, p, k, data, partial, incremental)

UnitSpec == UnitInit /\ [][UnitNext]_vars

\* ------------------------------------------------------------------------
\* Properties
\* ------------------------------------------------------------------------

\* C1: in every log, each adjacent pair of committed WorldStates satisfies
\* states[i].time < states[i+1].time.
C1_TimesStrictlyIncrease ==
  \A i \in 1..(Len(log.states) - 1) : log.states[i].time < log.states[i + 1].time

\* the number of maximal runs of equal consecutive values in a sequence
Runs(values) ==
  Cardinality({i \in 1..Len(values) : i = 1 \/ values[i] # values[i - 1]})

\* the play-mode of every committed WorldState
PlayModes == [i \in 1..Len(log.states) |-> log.states[i].gameState.playMode]

\* the score values of every committed WorldState
Scores ==
  [i \in 1..Len(log.states) |->
     << log.states[i].score.goalsLeft, log.states[i].score.goalsRight,
        log.states[i].score.penaltyScoreLeft, log.states[i].score.penaltyMissLeft,
        log.states[i].score.penaltyScoreRight, log.states[i].score.penaltyMissRight >>]

\* C7: once the log's derived indices are refreshed (here: by finalize),
\* gameStateList holds one entry per maximal run of consecutive WorldStates
\* with the same play-mode, and gameScoreList one per maximal run of
\* consecutive WorldStates with the same score values.
C7_TimelinesAreRunLengths ==
  (log.fullyLoaded /\ Len(log.states) > 0) =>
     /\ Len(log.gameStateList) = Runs(PlayModes)
     /\ Len(log.gameScoreList) = Runs(Scores)

\* a parse call has been made and has returned a value
Returned == lastCall.result \in {"true", "false"}

\* C5: parse returns true at most once, and the first parse call that
\* returns while the log's WorldState sequence is non-empty returns true
\* (if the last call returned with a non-empty sequence, some call so far
\* has returned true).
C5_TrueOnFirstNonEmptyReturn ==
  /\ trueCount <= 1
  /\ (Returned /\ lastCall.nonEmpty) => trueCount >= 1

\* C4: once dispose was called, a continuation that fires appends no
\* WorldState, does not mark the log finalized and dispatches no event.
C4_DisposedContinuationDoesNothing ==
  [][disposed # "no" =>
       /\ log'.states = log.states
       /\ log'.fullyLoaded = log.fullyLoaded
       /\ log'.statesChanged = log.statesChanged
       /\ log'.playerChanged = log.playerChanged]_vars

\* the data the first parse call delivered
FirstData == Slice(Text, 0, sent)

\* the first line the cursor makes available in the first call's data
\* ("" when there is none)
FirstLine == DataIterator_next(NewDataIterator(FirstData, lastCall.partial)).line

\* C8: a parse call on a ULG resource raises the structural ParserError
\* whenever the first line is missing or does not begin with the three
\* characters 'ULG'.
C8_ULGHeaderRequired ==
  (calls = 1 /\ Kind = "ulg" /\ Slice(FirstLine, 0, 3) # "ULG")
     => lastCall.result = "header-error"

\* C10: a parse call with partial = false raises the empty-log ParserError
\* whenever the WorldState sequence is still empty when its decoding work
\* returns, and a parse call with partial = true never raises it.
C10_EmptyLogError ==
  lastCall.result # "none" =>
     /\ (~lastCall.partial /\ ~lastCall.nonEmpty /\ lastCall.result # "header-error")
           => lastCall.result = "empty-error"
     /\ lastCall.partial => lastCall.result # "empty-error"

\* a second, non-partial call found the sequence still empty and raised the
\* empty-log error
C10_Witness ==
  /\ calls = 2
  /\ ~lastCall.partial
  /\ lastCall.result = "empty-error"
  /\ log.exists /\ Len(log.states) = 0

\* the line the cursor makes available in the first call's data after k
\* earlier ones ("" when there is none)
RECURSIVE LineAfter(_, _)
LineAfter(it, k) ==
  IF k = 0 THEN DataIterator_next(it).line ELSE LineAfter(DataIterator_next(it), k - 1)

\* the k-th line of the first call's data
HeaderLine(k) == LineAfter(NewDataIterator(FirstData, lastCall.partial), k - 1)

\* the number of space-separated fields of a line
FieldCount(line) == Len(Split(line))

\* the first field of a line
FirstField(line) == Field(Split(line), 0)

\* the first line begins with 'RPL'
IsRPL(line) == Slice(line, 0, 3) = "RPL"

\* the first call's data has no first line, no recognised header, or a
\* malformed one
MalformedReplayHeader ==
  \/ HeaderLine(1) = ""
  \/ ~IsRPL(HeaderLine(1)) /\ CharAt(HeaderLine(1), 0) \notin {"T", "V"}
  \/ IsRPL(HeaderLine(1)) /\ FieldCount(HeaderLine(1)) < 3
  \/ ~IsRPL(HeaderLine(1)) /\ CharAt(HeaderLine(1), 0) = "T" /\ FieldCount(HeaderLine(1)) < 3
  \/ /\ ~IsRPL(HeaderLine(1)) /\ CharAt(HeaderLine(1), 0) = "V"
     /\ \/ FieldCount(HeaderLine(1)) < 4
        \/ HeaderLine(2) = ""
        \/ FirstField(HeaderLine(2)) # "T" \/ FieldCount(HeaderLine(2)) < 5
        \/ HeaderLine(3) = ""
        \/ FirstField(HeaderLine(3)) # "F" \/ FieldCount(HeaderLine(3)) < 2

\* C9: a parse call on a Replay resource raises the structural ParserError
\* when the first line is missing, begins with none of 'RPL', 'T' or 'V',
\* or the recognised header is malformed (RPL or T header with fewer than 3
\* fields, V header with fewer than 4, or a V header not followed by a 'T'
\* teams line with at least 5 fields and an 'F' world line with at least 2).
C9_ReplayHeaderRequired ==
  (calls = 1 /\ Kind = "replay" /\ MalformedReplayHeader)
     => lastCall.result = "header-error"

\* a non-partial call whose 'V' header lacks a field, or a well-formed teams
\* or world line, raised the structural error
C9_Witness ==
  /\ calls = 1 /\ Kind = "replay" /\ ~lastCall.partial
  /\ CharAt(HeaderLine(1), 0) = "V"
  /\ MalformedReplayHeader
  /\ lastCall.result = "header-error"

\* the number of trailing characters of the buffer whose cursor positions
\* are examined, besides the cursor's own position
Window == 8

\* the cursor positions examined
Positions(it) ==
  {it.lastIndex} \cup (Max2(0, Len(it.data) - Window)..Len(it.data))

\* the characters of data in [a, b) are all line terminators
AllTerminators(data, a, b) == \A k \in a..(b - 1) : IsTerminator(CharAt(data, k))

\* no character of data in [a, b) is a line terminator
NoTerminator(data, a, b) == \A k \in a..(b - 1) : ~IsTerminator(CharAt(data, k))

\* the cursor it, placed at position i, has a next line, and next() yields
\* the characters [s, e) and moves behind them
YieldsRun(it, i, s, e) ==
  /\ DataIterator_hasNext([it EXCEPT !.lastIndex = i])
  /\ DataIterator_next([it EXCEPT !.lastIndex = i]).line = Slice(it.data, s, e)
  /\ DataIterator_next([it EXCEPT !.lastIndex = i]).lastIndex = e

\* the cursor it, placed at position i, has no next line, and next() yields
\* none and stays
YieldsNothing(it, i) ==
  /\ ~DataIterator_hasNext([it EXCEPT !.lastIndex = i])
  /\ DataIterator_next([it EXCEPT !.lastIndex = i]).line = ""
  /\ DataIterator_next([it EXCEPT !.lastIndex = i]).lastIndex = i

\* s is where the first run of non-terminator characters at or after i
\* starts
RunStartsAt(data, i, s) ==
  AllTerminators(data, i, s) /\ ~IsTerminator(CharAt(data, s))

\* e is where the run of non-terminator characters that starts at s ends
RunEndsAt(data, s, e) ==
  (e = Len(data) \/ IsTerminator(CharAt(data, e))) /\ NoTerminator(data, s, e)

\* the availability rule at position i of the cursor's buffer: nothing is
\* yielded when only terminators follow; the first run [s, e) is yielded
\* unless the data is partial and the run reaches the end of the buffer
Available(it, i) ==
  /\ AllTerminators(it.data, i, Len(it.data)) => YieldsNothing(it, i)
  /\ \A s \in i..(Len(it.data) - 1) :
        RunStartsAt(it.data, i, s) =>
           \A e \in (s + 1)..Len(it.data) :
              RunEndsAt(it.data, s, e) =>
                 IF it.partialData /\ e = Len(it.data)
                 THEN YieldsNothing(it, i) ELSE YieldsRun(it, i, s, e)

\* C3: while partial is true, hasNext()/next() yield a run of
\* non-terminator characters only if a line terminator follows it inside the
\* buffer, and never the trailing unterminated run; once partial is false
\* the trailing unterminated run is yielded as the last line.
\* (checked on every buffer a cursor of the decoder holds, for the cursor as
\* it is and with the other value of its partial flag)
C3_LineAvailability ==
  \A p \in BOOLEAN : \A i \in Positions(iterator) :
     Available([iterator EXCEPT !.partialData = p], i)

\* a partial call left the cursor before a trailing run without terminator:
\* next() withheld the run, and the cursor has no current line
C3_Witness ==
  /\ calls > 0 /\ iterator.partialData
  /\ Len(iterator.data) > 0
  /\ ~IsTerminator(CharAt(iterator.data, Len(iterator.data) - 1))
  /\ RunStart(iterator.data, iterator.lastIndex) >= 0
  /\ iterator.lastIndex > 0
  /\ iterator.line = ""
  /\ YieldsNothing(iterator, iterator.lastIndex)

\* the number of lines of a text: its maximal runs of non-terminator
\* characters
NumLines(text) ==
  Cardinality({i \in 0..(Len(text) - 1) :
                 /\ ~IsTerminator(CharAt(text, i))
                 /\ (i = 0 \/ IsTerminator(CharAt(text, i - 1)))})

\* the non-partial parse call has returned without error, and the cursor
\* was not disposed
FinalCallReturned == Returned /\ ~lastCall.partial /\ disposed # "drop"

\* C6: after a parse call with partial = false returns without error, with
\* every scheduled continuation eventually run and the cursor kept alive,
\* the log eventually reaches fullyLoaded = true; at that moment every line
\* of the input has been decoded and a pending PartialWorldState holding at
\* least one agent has been committed (none is left pending).
C6_FinalizationLiveness ==
  /\ FinalCallReturned ~> log.fullyLoaded
  /\ [](log.fullyLoaded /\ disposed # "drop" =>
          /\ decoded = NumLines(Text)
          /\ ~AgentsPresent(storage.partialState)
          /\ timers = 0)

\* a non-partial call left more than one batch of snapshots to a
\* continuation, which finalized the log with the last snapshot committed
C6_Witness ==
  /\ FinalCallReturned /\ calls = 1
  /\ log.fullyLoaded
  /\ Len(log.states) > ReplayMaxStates3D
  /\ decoded = NumLines(Text)
  /\ Len(log.states[Len(log.states)].leftAgentStateArrs) > 0

\* the WorldState sequence of the log after the whole text was fed in one
\* non-partial parse call and all scheduled continuations have run
OneShotStates(kind, text) ==
  Continuations(kind, ParseStart(kind, text, FALSE)).log.states

\* the chunks of an incremental load have all been delivered (the last one
\* with partial = false, unless a call raised an error before) and no
\* continuation is scheduled
ChunkedLoadDone ==
  /\ mode = "incremental"
  /\ lastCall.result # "none"
  /\ ~lastCall.partial \/ lastCall.result \in Errors
  /\ timers = 0
  /\ disposed = "no"

\* C2: feeding a complete log in one non-partial parse call, and feeding the
\* same text in chunks by successive calls with partial = true and
\* incremental = true (the last with partial = false), produce an identical
\* final WorldState sequence once all scheduled continuations have run.
C2_ChunkingInvariance ==
  ChunkedLoadDone => log.states = OneShotStates(Kind, Text)

\* s is a prefix of t
IsPrefix(s, t) == Len(s) <= Len(t) /\ SubSeq(t, 1, Len(s)) = s

\* the replay's agent lines are token trees (the formats after the initial one)
TreeAgentLines(replay) ==
  (replay.type = "3D" /\ NumNeq(replay.version, Num(0)))
  \/ (~replay.version.nan /\ replay.version.val > 0)

\* body lines whose token tree is never closed, for the formats that decode
\* the line as a token tree
MalformedLines(kind, replay) ==
  IF kind = "ulg"
  THEN {"(show 2 ((l 1) 0 0", "(team 1 a b 0 0", "(playmode 1 x"}
  ELSE IF TreeAgentLines(replay) THEN {"l 1 0 0 (j 1", "R 1 0 0 0 0 0 (s 1"}
  ELSE {}

\* decoding line on the current log and storage throws and leaves the
\* committed WorldStates as they are
ThrowsHarmlessly(line) ==
  /\ DecodeLine(Kind, line, log, storage).out.threw
  /\ DecodeLine(Kind, line, log, storage).out.log.states = log.states

\* C11: a body line whose decoding throws is not fatal: the exception does
\* not leave parse or a continuation (a call that ends with a non-empty log
\* after a line threw has returned normally), the cursor advances past the
\* failing line and every later line is decoded (once the log is finalized
\* every line of the input was handed to a decoder), and the WorldStates
\* committed before a failing line are unchanged by it.
C11_DecodeErrorsAreNotFatal ==
  /\ (caught > 0 /\ lastCall.nonEmpty) => Returned
  /\ (caught > 0 /\ log.fullyLoaded /\ disposed # "drop") => decoded = NumLines(Text)
  /\ (refs.log /\ refs.storage /\ Len(log.states) > 0) =>
        \A line \in MalformedLines(Kind, log) : ThrowsHarmlessly(line)

\* a line threw between committed snapshots, and the log was finalized with
\* all lines decoded and a snapshot committed after the failing line
C11_Witness ==
  /\ caught > 0
  /\ log.fullyLoaded /\ disposed = "no"
  /\ decoded = NumLines(Text)
  /\ Len(log.states) >= 2

\* C13: the log's WorldState sequence is append-only: every step leaves the
\* sequence it found as a prefix of the sequence it leaves, so no committed
\* WorldState is removed and none of its fields (time, game time, play mode,
\* score, ball array, agent arrays) changes.
C13_StatesAppendOnly == [][IsPrefix(log.states, log'.states)]_vars

\* WorldStates were committed by a parse call and, after it, by a scheduled
\* continuation and a second parse call
C13_Witness ==
  /\ calls = 2 /\ passes >= 1
  /\ Len(log.states) > ReplayMaxStates3D
  /\ log.states[1] # log.states[Len(log.states)]

\* parameter-block lines whose decoding fails: a token tree that is never
\* closed, JSON that does not parse
FailingParameterLines(kind) ==
  IF kind = "ulg"
  THEN {"(server_param (a 1)", "(player_param (b 2)", "(player_type (id 0)"}
  ELSE {"EP {\"a\":", "PP {\"b\":", "PT 0 {\"c\":"}

\* the parameter blocks of a log: environment, player and player types
ParameterBlocks(l) == << l.environmentParams, l.playerParams, l.playerTypes >>

\* C12: a parameter-block line whose decoding fails (Replay EP / PP / PT
\* with invalid JSON; ULG server_param / player_param / player_type with a
\* malformed token tree) leaves the environment parameters, the player
\* parameters and the player types with the contents they had before.
C12_FailedParameterLineKeepsContents ==
  (refs.log /\ refs.storage) =>
    \A line \in FailingParameterLines(Kind) :
      ParameterBlocks(DecodeLine(Kind, line, log, storage).out.log) = ParameterBlocks(log)

PassLimit ==
  IF Kind = "ulg" THEN ULGMaxStates
  ELSE IF log.type = "2D" THEN ReplayMaxStates2D ELSE ReplayMaxStates3D

\* a pass that leaves a line to decode has scheduled a continuation
MoreLinesAreScheduled == (refs.storage /\ iterator.line # "") => timers > 0

\* C15 as claimed: a single body-parsing pass decodes at most N input lines
\* before it returns (N = 300 for 2D Replay logs, 50 for 3D Replay logs, 100
\* for ULG logs), and when more lines are available after that it schedules
\* a continuation.
C15_PassDecodesAtMostNLines ==
  /\ refs.storage => lastPass.lines <= PassLimit
  /\ MoreLinesAreScheduled

\* C15 as amended: a single body-parsing pass counts at most N new states
\* before it returns (Replay: state lines that committed a WorldState; ULG:
\* show lines decoded without error), whatever the number of lines it
\* decodes for them, and when a line is left after that it has scheduled a
\* continuation.
C15_PassCountsAtMostNStates ==
  /\ refs.storage => lastPass.newStatesCnt <= PassLimit
  /\ refs.storage => storage.maxStates = PassLimit
  /\ MoreLinesAreScheduled

\* a pass counted N new states on more than N lines and left the rest to a
\* continuation
C15_Witness ==
  /\ refs.storage
  /\ lastPass.newStatesCnt = PassLimit
  /\ lastPass.lines > PassLimit
  /\ iterator.line # ""
  /\ timers > 0

\* the name a token stands for: the token without its quote characters
Unquoted(token) ==
  IF Len(token) >= 2 /\ CharAt(token, 0) = "\"" /\ CharAt(token, Len(token) - 1) = "\""
  THEN SliceInner(token) ELSE token

\* C16: decoding the ULG line (team T L R gl gr) sets the left team name to
\* L and the right team name to R (without quote characters), the pending
\* score to gl : gr and the pending game time to T / 10; in particular
\* (team 100 "TeamA" "TeamB" 1 0) gives TeamA, TeamB, 1 : 0 and 10.0.
C16_ULGTeamLine ==
  unit.op = "teamLine" =>
    /\ unit.result.log.leftTeam.name = Unquoted(unit.args.L)
    /\ unit.result.log.rightTeam.name = Unquoted(unit.args.R)
    /\ unit.result.st.partialState.score.goalsLeft = ParseInt(unit.args.gl)
    /\ unit.result.st.partialState.score.goalsRight = ParseInt(unit.args.gr)
    /\ unit.result.st.partialState.gameTime = Num(ParseInt(unit.args.T).val * 100)

\* the agent state the line left for player number 1 on its side
DecodedAgent ==
  IF unit.args.tag \in {"l", "L"}
  THEN unit.result.st.partialState.leftAgentStates[1]
  ELSE unit.result.st.partialState.rightAgentStates[1]

\* the pose field k (1..7) as a number of thousandths
Pose(k) == ParseInt(unit.args.pose[k]).val

RECURSIVE Depth(_, _)
\* the nesting depth after the first n characters of text: the opening
\* parentheses less the closing ones
Depth(text, n) ==
  IF n = 0 THEN 0
  ELSE Depth(text, n - 1)
       + (IF CharAt(text, n - 1) = "(" THEN 1 ELSE IF CharAt(text, n - 1) = ")" THEN -1 ELSE 0)

\* text is exactly one balanced parenthesized node: it opens with '(', the
\* node it opens is closed by the last character and not before
OneBalancedNode(text) ==
  /\ Len(text) >= 2
  /\ CharAt(text, 0) = "("
  /\ Depth(text, Len(text)) = 0
  /\ \A n \in 1..(Len(text) - 1) : Depth(text, n) > 0

RECURSIVE Nodes(_)
\* the number of nodes of a tree
Nodes(node) ==
  IF node.children = << >> THEN 1
  ELSE 1 + Nodes(Head(node.children)) + Nodes([node EXCEPT !.children = Tail(@)]) - 1

\* C18: SymbolTreeParser.parse throws for every input that is not exactly
\* one balanced parenthesized node spanning the whole input (not starting
\* with '(' or not ending with ')', more than one top-level node, a node
\* never closed) and returns a tree for every input that is: one node for
\* each opening parenthesis.
C18_TreeParseAcceptsOneBalancedNode ==
  unit.op = "treeParse" =>
    /\ unit.result.ok <=> OneBalancedNode(unit.args)
    /\ unit.result.ok =>
          Nodes(unit.result.node)
            = Cardinality({i \in 0..(Len(unit.args) - 1) : CharAt(unit.args, i) = "("})

\* parse threw for two top-level nodes wrapped in parentheses at both ends
C18_Witness ==
  /\ unit.op = "treeParse"
  /\ unit.args = "(a)()"
  /\ ~unit.result.ok

\* C19: isValid() on an AgentState built from parameters returns false
\* when all four quaternion components are zero and returns true as soon as
\* any quaternion component is not zero.
C19_IsValidIffNonZeroQuaternion ==
  unit.op = "isValid" =>
    (unit.result <=> \E i \in 1..4 : unit.args.q[i] # Double(0, 0))

\* a number that is not zero as the 32-bit float it is stored as
StoredAsNonZero(d) == d.nan \/ (d.num # 0 /\ d.exp >= Float32MinExp)

\* C19 (amended): isValid() on an AgentState built from parameters returns
\* false when all four quaternion components are zero, and true as soon as
\* any quaternion component is not zero as the 32-bit float the state array
\* stores it as.
C19_IsValidIffStoredQuaternionNonZero ==
  unit.op = "isValid" =>
    (unit.result <=> \E i \in 1..4 : StoredAsNonZero(unit.args.q[i]))

\* the only component that is not zero is the smallest positive 32-bit float
C19_Witness ==
  /\ unit.op = "isValid"
  /\ unit.args.q = << Double(0, 0), Double(0, 0), Double(1, Float32MinExp), Double(0, 0) >>
  /\ unit.result = TRUE

\* the part of the buffer the scan has passed
Consumed(it) == SubSeq(it.data, 1, it.lastIndex)

\* C20: update(newData, partial, incremental) with incremental = true makes
\* the buffer the not yet consumed remainder of the old buffer followed by
\* newData; with incremental = false it replaces the whole buffer by newData
\* and resets the scan cursor.
C20_UpdateResetsCursorWhenReplacing ==
  unit.op = "update" =>
    IF unit.args.incremental
    THEN Consumed(unit.args.it) \o unit.result.data = unit.args.it.data \o unit.args.data
    ELSE unit.result.data = unit.args.data /\ unit.result.lastIndex = 0

\* C20 (amended): with incremental = true the buffer becomes the not yet
\* consumed remainder of the old buffer followed by newData and the scan
\* cursor is reset; with incremental = false the whole buffer is replaced by
\* newData and the scan cursor stays where it was.
C20_UpdateResetsCursorWhenIncremental ==
  unit.op = "update" =>
    IF unit.args.incremental
    THEN /\ Consumed(unit.args.it) \o unit.result.data = unit.args.it.data \o unit.args.data
         /\ unit.result.lastIndex = 0
    ELSE /\ unit.result.data = unit.args.data
         /\ unit.result.lastIndex = unit.args.it.lastIndex

\* an incremental update of an iterator that has consumed a part of its
\* buffer and still holds a remainder
C20_Witness ==
  /\ unit.op = "update"
  /\ unit.args.incremental
  /\ unit.args.it.lastIndex > 0
  /\ unit.args.it.lastIndex < Len(unit.args.it.data)
  /\ unit.args.data # ""
  /\ unit.result.data = "\r\nc" \o unit.args.data

\* a load by the whole-so-far protocol has made its final (non-partial) call
\* and no continuation is scheduled
WholeLoadDone ==
  /\ mode = "whole"
  /\ lastCall.result # "none"
  /\ ~lastCall.partial
  /\ timers = 0
  /\ disposed = "no"

HeaderOf(kind, text) ==
  IF kind = "ulg" THEN ULGParser_parseHeader(NewDataIterator(text, FALSE))
  ELSE ReplayParser_parseHeader(NewDataIterator(text, FALSE))

\* the WorldState sequence one pass over the complete text leaves when its
\* storage allows more new states than the text has characters
UnbatchedStates(kind, text) ==
  LET h == HeaderOf(kind, text)
  IN IF ~h.ok THEN << >>
     ELSE ParseBody(kind, h.it, h.log,
                    [NewStorage(kind, h.log) EXCEPT !.maxStates = Len(text) + 1]).log.states

\* the final call has returned and no continuation is scheduled
LoadDone ==
  /\ lastCall.result \in {"true", "false"}
  /\ ~lastCall.partial
  /\ timers = 0
  /\ disposed = "no"

\* C22: the final WorldState sequence does not depend on the batch limit: a
\* continuation goes on with the line its pass had fetched, so that after all
\* passes the log holds the states of one unlimited pass and every line was
\* handed to a decoder exactly once.
C22_BatchLimitLeavesStatesAlone ==
  LoadDone =>
    /\ log.states = UnbatchedStates(Kind, Text)
    /\ decoded = NumLines(Text)

\* a load in one call whose pass stopped at its limit, and whose scheduled
\* pass has run
C22_Witness ==
  /\ LoadDone
  /\ calls = 1
  /\ passes >= 1
  /\ Len(log.states) > storage.maxStates

\* this step is a parse call (every call delivers more text or is the final
\* one)
ParseCallStep == sent' # sent \/ lastCall' # lastCall

\* C23: at most one continuation is scheduled at any time, and a parse call
\* made while one is scheduled only updates the cursor's buffer and partial
\* flag: it decodes no line, leaves the current line, the log and the builder
\* alone, and schedules nothing.
C23_OneContinuationPerCursor ==
  [][/\ timers' <= 1
     /\ (ParseCallStep /\ timers > 0) =>
          /\ timers' = timers
          /\ decoded' = decoded
          /\ log' = log
          /\ storage' = storage
          /\ iterator'.line = iterator.line
          /\ iterator'.partialData = lastCall'.partial]_vars

\* a second or later call found a continuation scheduled that had not run
C23_Witness ==
  /\ timers = 1
  /\ passes = 0
  /\ calls = 2
  /\ lastPass.lines = 0
  /\ iterator.line # ""

\* C24: a Replay 'S' line and a ULG 'team' / 'playmode' line commit the
\* pending snapshot before they apply their game time, play mode or score:
\* the WorldState the line commits carries the game time, the play mode and
\* the score the builder held before the line, and the builder holds the
\* line's values afterwards.
C24_CommitBeforeApply ==
  unit.op = "commitLine" =>
    LET l == unit.args.line
        before == unit.args.ps
        after == unit.result.st.partialState
        states == unit.result.log.states
    IN /\ Len(states) = (IF AgentsPresent(before) THEN 1 ELSE 0)
       /\ Len(states) = 1 =>
            /\ states[1].gameTime = before.gameTime
            /\ states[1].gameState = before.gameState
            /\ states[1].score = before.score
       /\ after.gameTime = Num(l.gameTime)
       /\ after.gameState.playMode =
            (IF l.playMode = "" THEN before.gameState.playMode ELSE l.playMode)
       /\ after.score.goalsLeft =
            (IF l.goalsLeft < 0 THEN before.score.goalsLeft ELSE Num(l.goalsLeft))

\* a state line committed a snapshot whose game time, play mode and score
\* all differ from the line's
C24_Witness ==
  /\ unit.op = "commitLine"
  /\ unit.args.line.text = "S 120 PlayOn 1 0"
  /\ Len(unit.result.log.states) = 1
  /\ unit.result.log.states[1].gameTime = Num(7000)
  /\ unit.result.log.states[1].gameState.playMode = "unknown"
  /\ unit.result.log.states[1].score.goalsLeft = Num(0)
  /\ unit.result.st.partialState.gameTime = Num(12000)

\* the index of the first committed WorldState that references the play
\* mode instance (the score instance) of states[i]
FirstWithState(states, i) ==
  CHOOSE j \in 1..i :
    /\ SameInstance(states[j].gameState, states[i].gameState)
    /\ \A k \in 1..(j - 1) : ~SameInstance(states[k].gameState, states[i].gameState)

FirstWithScore(states, i) ==
  CHOOSE j \in 1..i :
    /\ SameInstance(states[j].score, states[i].score)
    /\ \A k \in 1..(j - 1) : ~SameInstance(states[k].score, states[i].score)

\* C25: every GameState and every GameScore instance that a committed
\* WorldState references carries the time of the first committed WorldState
\* that references it.
C25_EffectTimes ==
  \A i \in 1..Len(log.states) :
    /\ log.states[i].gameState.time = log.states[FirstWithState(log.states, i)].time
    /\ log.states[i].score.time = log.states[FirstWithScore(log.states, i)].time

\* a play mode and a score that took effect after the first snapshot
C25_Witness ==
  \E i \in 2..Len(log.states) :
    /\ log.states[i].gameState.time > 0
    /\ log.states[i].score.time > 0
    /\ FirstWithState(log.states, i) > 1
    /\ FirstWithScore(log.states, i) > 1

\* the six fields of a score
ScoreFields(score) ==
  << score.goalsLeft, score.goalsRight, score.penaltyScoreLeft, score.penaltyMissLeft,
     score.penaltyScoreRight, score.penaltyMissRight >>

\* C26: setPlaymode (setScore) replaces the builder's GameState (GameScore)
\* by a new instance that holds the given play mode (score fields) when the
\* play mode (one of the six fields) differs from the current one, and keeps
\* the instance when the value is the current one.
C26_InstanceKeptIffUnchanged ==
  /\ unit.op = "setScore" =>
       IF unit.args.score = ScoreFields(unit.args.ps.score)
       THEN unit.result.score = unit.args.ps.score
       ELSE /\ ~SameInstance(unit.result.score, unit.args.ps.score)
            /\ ScoreFields(unit.result.score) = unit.args.score
  /\ unit.op = "setPlaymode" =>
       IF unit.args.playMode = unit.args.ps.gameState.playMode
       THEN unit.result.gameState = unit.args.ps.gameState
       ELSE /\ ~SameInstance(unit.result.gameState, unit.args.ps.gameState)
            /\ unit.result.gameState.playMode = unit.args.playMode

\* C27: a committing appendTo appends a WorldState that carries the
\* builder's time, game time, play mode, score and ball as they were before
\* the call; afterwards the builder's time is the previous time plus the
\* time step, rounded to the nearest whole millisecond, both agent arrays
\* are empty, and ball, score, play mode and game time are unchanged.
C27_CommitFrame ==
  (unit.op = "appendTo" /\ unit.result.appended) =>
    LET before == unit.args.ps
        after == unit.result.ps
        new == unit.result.states[Len(unit.result.states)]
        exact == before.time * 1000 + before.timeStep
    IN /\ new.time = before.time
       /\ new.gameTime = before.gameTime
       /\ new.gameState = before.gameState
       /\ new.score = before.score
       /\ new.ballStateArr = before.ballState
       /\ after.time * 1000 - exact <= 500
       /\ exact - after.time * 1000 <= 500
       /\ DOMAIN after.leftAgentStates = {}
       /\ DOMAIN after.rightAgentStates = {}
       /\ after.ballState = before.ballState
       /\ after.score = before.score
       /\ after.gameState = before.gameState
       /\ after.gameTime = before.gameTime

\* a commit at 1.5 s with a step of 0.6 ms, a ball off the centre and a
\* play mode and a score that are not the initial ones
C27_Witness ==
  /\ unit.op = "appendTo"
  /\ unit.result.appended
  /\ unit.args.ps.time = 1500
  /\ unit.args.ps.timeStep = 600
  /\ unit.result.ps.time = 1501
  /\ unit.args.ps.ballState # DefaultObjectState
  /\ unit.args.ps.gameState.playMode = "PlayOn"
  /\ unit.args.ps.score.goalsLeft = Num(1)
  /\ unit.args.ps.gameTime = Num(7000)

\* C28: once SimulationLog.finalize has marked the log fully loaded, no
\* WorldState is appended to it and fullyLoaded stays true, also when parse
\* is called again on the same decoder.
C28_FinalizedLogIsClosed ==
  (unit.op = "parseAgain" /\ unit.args.fullyLoaded) =>
    /\ unit.result.states = unit.args.states
    /\ unit.result.fullyLoaded

\* the part of C28 about the passes of one load: a step from a state whose
\* log is fully loaded leaves the WorldState sequence alone and the log
\* fully loaded
FinalizedLogStaysInLoad ==
  [][log.fullyLoaded => (log'.states = log.states /\ log'.fullyLoaded)]_vars

\* C30: after any sequence of addPlayerType calls playerTypes holds no type
\* twice, recentTypeIdx is an index of the list, playerTypes[recentTypeIdx]
\* is the type of the last call, and that call returned true exactly when
\* its type was neither the constructor's nor one of an earlier call.
C30_PlayerTypesDistinct ==
  unit.op = "addPlayerType" =>
    LET types == unit.args.types
        last == types[Len(types)]
        list == unit.result.agent.playerTypes
        recent == unit.result.agent.recentTypeIdx
    IN /\ \A i \in 1..Len(list) : \A j \in 1..Len(list) : list[i] = list[j] => i = j
       /\ 0 <= recent
       /\ recent < Len(list)
       /\ list[recent + 1] = last
       /\ unit.result.returned <=>
            (last # unit.args.first /\ \A k \in 1..(Len(types) - 1) : types[k] # last)

\* a type is added, another one follows, and the first of them comes again
C30_Witness ==
  /\ unit.op = "addPlayerType"
  /\ unit.args.first = 0
  /\ unit.args.types = << 1, 2, 1 >>
  /\ unit.result.agent.playerTypes = << 0, 1, 2 >>
  /\ unit.result.agent.recentTypeIdx = 1
  /\ ~unit.result.returned

\* the last of the agent lines dispatched
LastAgentLine == unit.args.lines[Len(unit.args.lines)]

\* the team of a log the agent line tagged tag belongs to
TeamOfTag(l, tag) == IF tag \in {"L", "l"} THEN l.leftTeam ELSE l.rightTeam

\* the AgentState the last agent line left in the partial state
LastAgentState ==
  IF LastAgentLine.tag \in {"L", "l"}
  THEN unit.result.st.partialState.leftAgentStates[ParseInt(LastAgentLine.no).val]
  ELSE unit.result.st.partialState.rightAgentStates[ParseInt(LastAgentLine.no).val]

\* an earlier line of the run carried a type index for the side and
\* player number of the last line
IntroducedBefore ==
  \E i \in 1..(Len(unit.args.lines) - 1) :
    /\ unit.args.lines[i].type # ""
    /\ (unit.args.lines[i].tag = "L") = (LastAgentLine.tag \in {"L", "l"})
    /\ unit.args.lines[i].no = LastAgentLine.no

\* C29: where only the uppercase-tagged agent lines carry a type index, an
\* L/R line registers the given player type with the description of that
\* side and player number and caches the description's most recent type
\* index, leaving the other cached indices alone; an l/r line changes no
\* cached index and yields an AgentState whose model index is the cached
\* index of its side and number when an uppercase line introduced them,
\* and 0 when none did.
C29_TypeIndexCachedOnUppercaseLines ==
  unit.op = "agentLines" =>
    LET l == LastAgentLine
        left == l.tag \in {"L", "l"}
        no == ParseInt(l.no)
        team == TeamOfTag(unit.result.log, l.tag)
        pos == AgentPos(team, no)
        cachedBefore == CachedTypeIdx(unit.args.before.st, left, no)
        cachedAfter == CachedTypeIdx(unit.result.st, left, no)
    IN /\ \A side \in BOOLEAN, n \in {Num(1), Num(2)} :
            (l.type = "" \/ side # left \/ n # no) =>
              CachedTypeIdx(unit.result.st, side, n)
                = CachedTypeIdx(unit.args.before.st, side, n)
       /\ LastAgentState.modelIdx = Num(cachedAfter)
       /\ l.type # "" =>
            /\ pos > 0
            /\ cachedAfter = team.agents[pos].recentTypeIdx
            /\ team.agents[pos].playerTypes[cachedAfter + 1]
                 = PlayerTypeAt(unit.args.before.log, ParseInt(l.type))
       /\ l.type = "" =>
            /\ unit.result.log = unit.args.before.log
            /\ IntroducedBefore => LastAgentState.modelIdx = Num(cachedBefore)
            /\ ~IntroducedBefore => LastAgentState.modelIdx = Num(0)

\* a lowercase line after two uppercase lines that gave its player a
\* second type: the model index is 1
C29_Witness ==
  /\ unit.op = "agentLines"
  /\ Len(unit.args.lines) = 3
  /\ LastAgentLine.type = ""
  /\ IntroducedBefore
  /\ LastAgentState.modelIdx = Num(1)

\* the player numbers of a run of addAgent calls
NumbersPassed(cs) == [i \in 1..Len(cs) |-> cs[i].number]

\* the elements of a sequence in the order of their first occurrence
FirstSeen(values) ==
  LET first == {i \in 1..Len(values) : \A j \in 1..(i - 1) : values[j] # values[i]}
      nth[k \in 1..Cardinality(first)] ==
        CHOOSE i \in first : Cardinality({j \in first : j < i}) = k - 1
  IN [k \in 1..Cardinality(first) |-> values[nth[k]]]

\* the last addAgent call gave the team something new: a description for
\* its player number, or a player type for the description of that number
AddedSomething ==
  LET call == unit.args.calls[Len(unit.args.calls)]
      earlier == {i \in 1..(Len(unit.args.calls) - 1) :
                    unit.args.calls[i].number = call.number}
  IN \A i \in earlier : unit.args.calls[i].playerType # call.playerType

\* C31: after any sequence of addAgent calls the team's agent list holds
\* exactly one AgentDescription per distinct player number passed, in
\* first-seen order, and addAgent returns true, dispatching one 'agents'
\* event, exactly when it added a new description or a new player type to
\* an existing one.
C31_OneDescriptionPerNumber ==
  unit.op = "addAgent" =>
    /\ [i \in 1..Len(unit.result.team.agents) |-> unit.result.team.agents[i].playerNo]
         = FirstSeen(NumbersPassed(unit.args.calls))
    /\ unit.result.returned <=> AddedSomething
    /\ unit.result.team.agentsEvents
         = unit.args.before.agentsEvents + (IF unit.result.returned THEN 1 ELSE 0)

\* the same for calls whose player numbers are all numbers
AddAgentKeepsNumbersApart ==
  (unit.op = "addAgent" /\ \A i \in 1..Len(unit.args.calls) : ~unit.args.calls[i].number.nan)
    => C31_OneDescriptionPerNumber

\* the joint values the line of a jointLine call carries, as numbers
JointsWritten == Floats(JointFields(unit.args.count, unit.args.step))

\* the joint list of the AgentState a jointLine call decoded
JointsStored ==
  (IF unit.args.tag \in {"l", "L"}
   THEN unit.result.st.partialState.leftAgentStates[1]
   ELSE unit.result.st.partialState.rightAgentStates[1]).jointAngles

\* the written joints regrouped for legs of n joints: head, right arm, left
\* arm, right leg, left leg, each group in its written order
Regrouped(j, n) ==
  SubSeq(j, 1, 2) \o SubSeq(j, 7 + n, 10 + n) \o SubSeq(j, 3, 6)
    \o SubSeq(j, 11 + n, 10 + 2 * n) \o SubSeq(j, 7, 6 + n)

\* b holds the elements of a, each as often as a does
IsPermutation(a, b) ==
  /\ Len(a) = Len(b)
  /\ \A i \in 1..Len(a) :
       Cardinality({k \in 1..Len(a) : a[k] = a[i]})
         = Cardinality({k \in 1..Len(b) : b[k] = a[i]})

\* C32: a 3D version-0 agent line with a full joint set (22 values, 6 per
\* leg, or 24 values, 7 per leg) stores the joints regrouped from (head,
\* left arm, left leg, right arm, right leg) to (head, right arm, left arm,
\* right leg, left leg) with the order inside each group kept; a joint list
\* of at most 24 values is stored as a permutation of the values written.
C32_JointsRegrouped ==
  unit.op = "jointLine" =>
    /\ unit.args.count = 22 => JointsStored = Regrouped(JointsWritten, 6)
    /\ unit.args.count = 24 => JointsStored = Regrouped(JointsWritten, 7)
    /\ unit.args.count <= 24 => IsPermutation(JointsWritten, JointsStored)

\* 24 joints on an 'L' line: the third stored value is the first of the
\* right arm, the fourteenth written
C32_Witness ==
  /\ unit.op = "jointLine"
  /\ unit.args.tag = "L"
  /\ unit.args.count = 24
  /\ unit.args.step = 7
  /\ JointsStored[3] = Num(98000)
  /\ JointsStored[24] = Num(91000)

\* the joint list of the AgentState an agentLine2D call decoded
Joints2D ==
  (IF unit.args.tag \in {"l", "L"}
   THEN unit.result.st.partialState.leftAgentStates[1]
   ELSE unit.result.st.partialState.rightAgentStates[1]).jointAngles

\* the second angle of the line minus its heading, in thousandths of a
\* degree (both are numbers)
AngleDelta == ParseFloat(unit.args.neck).val - ParseFloat(unit.args.heading).val

\* an angle of the nominal range of -180 to 180 degrees
NominalAngle(token) ==
  ~ParseFloat(token).nan /\ ParseFloat(token).val \in -180000..180000

\* the one joint value is the negated delta, taken a whole turn down or up
\* where the delta lies above 180 or below -180 degrees
JointIsTurnedDelta ==
  /\ Len(Joints2D) = 1
  /\ IF ParseFloat(unit.args.neck).nan THEN Joints2D[1] = NaN
     ELSE /\ ~Joints2D[1].nan
          /\ -Joints2D[1].val
               = (IF AngleDelta > 180000 THEN AngleDelta - 360000
                  ELSE IF AngleDelta < -180000 THEN AngleDelta + 360000
                  ELSE AngleDelta)

\* the one joint value is the negated delta brought into -180 to 180 degrees
JointIsWrappedDelta ==
  /\ Len(Joints2D) = 1
  /\ ~Joints2D[1].nan
  /\ -Joints2D[1].val \in -180000..180000
  /\ (-Joints2D[1].val - AngleDelta) % 360000 = 0

\* C33 as stated: a 2D version-0 agent line with a second angle token after
\* the heading decodes to exactly one joint value, the negated difference
\* of the second angle and the heading wrapped into -180 to 180 degrees;
\* without a second angle the joint list is empty.
C33_JointWheneverSecondAngle ==
  unit.op = "agentLine2D" =>
    IF unit.args.neck = "" THEN Joints2D = << >>
    ELSE ParseFloat(unit.args.neck).nan \/ JointIsWrappedDelta

\* C33: a 2D version-0 agent line with a second angle token and a stamina
\* token after the heading decodes to exactly one joint value, the negated
\* difference of the second angle and the heading taken one whole turn
\* towards zero where it lies outside -180 to 180 degrees, which brings it
\* into that range when both angles lie in it; a line with fewer than
\* seven fields decodes to an empty joint list.
C33_JointWhenAngleAndStamina ==
  unit.op = "agentLine2D" =>
    IF unit.args.neck # "" /\ unit.args.stamina # ""
    THEN /\ JointIsTurnedDelta
         /\ (NominalAngle(unit.args.heading) /\ NominalAngle(unit.args.neck))
              => JointIsWrappedDelta
    ELSE Joints2D = << >>

\* a neck at 180 degrees on a body at -90: the joint is 90 degrees, the
\* delta of 270 taken a turn down and negated
C33_Witness ==
  /\ unit.op = "agentLine2D"
  /\ unit.args.heading = "-90"
  /\ unit.args.neck = "180"
  /\ unit.args.stamina = "s4000"
  /\ Joints2D = << Num(90000) >>

\* the characters that end a value
Delimiters == {" ", "(", ")"}

\* the elements of a finite set of numbers in ascending order
Ascending(S) ==
  [k \in 1..Cardinality(S) |-> CHOOSE p \in S : Cardinality({q \in S : q < p}) = k - 1]

\* the position of the parenthesis that closes the node opened at o
MatchOf(text, o) ==
  CHOOSE c \in (o + 1)..(Len(text) - 1) :
    /\ Depth(text, c + 1) = Depth(text, o)
    /\ \A d \in (o + 1)..(c - 1) : Depth(text, d + 1) > Depth(text, o)

\* the positions directly inside the node opened at o: between its
\* parentheses and inside none of its nested nodes
DirectlyIn(text, o) ==
  {p \in (o + 1)..(MatchOf(text, o) - 1) : Depth(text, p) = Depth(text, o) + 1}

\* the maximal run of characters other than delimiters that starts at p
RunFrom(text, p) ==
  Slice(text, p, CHOOSE e \in (p + 1)..Len(text) :
                   /\ CharAt(text, e) \in Delimiters
                   /\ \A d \in p..(e - 1) : CharAt(text, d) \notin Delimiters)

RECURSIVE NodeAt(_, _)
\* the node a well-formed text describes at the opening parenthesis o: its
\* values are the maximal runs directly inside it, its children the nodes
\* that open directly inside it, both from left to right
NodeAt(text, o) ==
  LET starts == {p \in DirectlyIn(text, o) :
                   /\ CharAt(text, p) \notin Delimiters
                   /\ CharAt(text, p - 1) \in Delimiters}
      opens == {p \in DirectlyIn(text, o) : CharAt(text, p) = "("}
  IN [values |-> [k \in 1..Cardinality(starts) |-> RunFrom(text, Ascending(starts)[k])],
      children |-> [k \in 1..Cardinality(opens) |-> NodeAt(text, Ascending(opens)[k])]]

RECURSIVE NoEmptyValue(_)
\* no node of the tree holds an empty value
NoEmptyValue(node) ==
  /\ \A k \in 1..Len(node.values) : node.values[k] # ""
  /\ \A k \in 1..Len(node.children) : NoEmptyValue(node.children[k])

\* C34: for every well-formed input each node SymbolTreeParser.parse returns
\* has as values exactly the maximal runs of characters other than space,
\* '(' and ')' directly inside that node, from left to right and none of
\* them empty, and as children exactly the directly nested parenthesized
\* nodes, from left to right.
C34_TreeHoldsRunsAndNestedNodes ==
  (unit.op = "treeParse" /\ OneBalancedNode(unit.args)) =>
    /\ unit.result.ok
    /\ unit.result.node = NodeAt(unit.args, 0)
    /\ NoEmptyValue(unit.result.node)

\* values before, between and after two nested nodes, runs of spaces
\* between them
C34_Witness ==
  /\ unit.op = "treeParse"
  /\ unit.args = "(ab (c d)e( f)  g)"
  /\ unit.result.ok
  /\ unit.result.node.values = << "ab", "e", "g" >>
  /\ unit.result.node.children
       = << [values |-> << "c", "d" >>, children |-> << >>],
            [values |-> << "f" >>, children |-> << >>] >>

\* C35: the empty-log error is raised only when the complete input holds no
\* snapshot that can be committed: a non-partial parse call never raises it
\* while undecoded lines of the input wait in a scheduled continuation.
C35_EmptyErrorOnlyForEmptyInput ==
  lastCall.result = "empty-error" =>
    /\ UnbatchedStates(Kind, Text) = << >>
    /\ (timers > 0 => iterator.line = "")

\* the same for Replay logs, whose passes count committed snapshots only
EmptyErrorOnlyForEmptyReplay ==
  Kind = "replay" => C35_EmptyErrorOnlyForEmptyInput

\* the derived fields of a log agree with its states: the times are those
\* of the first and the last state, and another onStatesUpdated would leave
\* the times and both timelines as they are
DerivedUpToDate(l) ==
  /\ l.startTime = l.states[1].time
  /\ l.endTime = l.states[Len(l.states)].time
  /\ l.duration = l.endTime - l.startTime
  /\ [SimulationLog_onStatesUpdated(l) EXCEPT !.statesChanged = l.statesChanged] = l

\* C36: whenever a body-parsing pass, run by parse or as a continuation,
\* returns after it appended at least one WorldState, the log's startTime,
\* endTime, duration, gameStateList and gameScoreList agree with the full
\* states sequence and a 'states-changed' event was dispatched in that pass.
C36_DerivedFieldsFollowAppends ==
  [][Len(log'.states) > Len(log.states) =>
       /\ DerivedUpToDate(log')
       /\ log'.statesChanged > log.statesChanged]_vars

\* the same for Replay logs
ReplayDerivedFieldsFollowAppends ==
  [][(Kind = "replay" /\ Len(log'.states) > Len(log.states)) =>
       /\ DerivedUpToDate(log')
       /\ log'.statesChanged > log.statesChanged]_vars

\* C37: for every committed WorldState at index i of a decoded log,
\* getIndexForTime(states[i].time) returns i, for every sampling frequency
\* the log can take from its header or parameter lines.
C37_LookupInvertsCommitTimes ==
  \A i \in 1..Len(log.states) :
    SimulationLog_getIndexForTime(log, log.states[i].time) = i - 1

\* the same for logs whose step is a whole number of milliseconds
LookupInvertsWholeMillisecondSteps ==
  (log.exists /\ log.period > 0 /\ log.period % 1000 = 0) => C37_LookupInvertsCommitTimes

\* C38: when parse raises a structural header error on a fresh decoder the
\* decoder is left without a log (getSimulationLog() returns none), for
\* every header variant and every point of the header the error is
\* detected at.
C38_HeaderErrorLeavesNoLog ==
  lastCall.result = "header-error" => ~refs.log

\* the same for the headers that do not open with 'V': 'RPL', the initial
\* 2D format, a ULG header and a first line that is none of them
HeaderErrorLeavesNoLogUnlessV ==
  (lastCall.result = "header-error" /\ CharAt(Text, 0) # "V") => ~refs.log

\* the entries of a list that were registered with the context
EntriesOf(entries, context) ==
  SelectSeq(entries, LAMBDA entry : entry.context = context)

\* C39: after removeEventListenersFor(context) no listener registered with
\* that context is invoked by a later dispatchEvent of any event type, and
\* the listeners registered with other contexts stay registered.
C39_RemovedContextIsNotInvoked ==
  unit.op = "removeListeners" =>
    /\ EntriesOf(unit.result.invoked, unit.args.context) = << >>
    /\ \A t \in EventTypes :
         EntriesNotOf(unit.result.after.lists[t], unit.args.context)
           = EntriesNotOf(unit.args.before.lists[t], unit.args.context)

\* the listeners registered with other contexts stay registered, in their
\* order, and no listener is added by the removal
RemovalKeepsOtherContexts ==
  unit.op = "removeListeners" =>
    \A t \in EventTypes :
      /\ EntriesNotOf(unit.result.after.lists[t], unit.args.context)
           = EntriesNotOf(unit.args.before.lists[t], unit.args.context)
      /\ Len(unit.result.after.lists[t]) <= Len(unit.args.before.lists[t])

\* a dispatch after the removal calls a listener of the removed context
RemovedContextInvoked ==
  /\ unit.op = "removeListeners"
  /\ EntriesOf(unit.result.invoked, unit.args.context) # << >>

====
